---- MODULE Spec2Model ----
(***************************************************************************)
(* The runner orchestration loop of rvmm: runner.Run (the Dispatcher), the *)
(* worker goroutine it spawns per slot, runOnce (one VM lifecycle          *)
(* iteration) and VMManager.Cleanup, together with the TUI entry that      *)
(* starts and stops the loop inside one process.                           *)
(*                                                                         *)
(* External tools (tart, sshpass/ssh, the GitHub API) are the environment: *)
(* every call has the outcomes its Go call site distinguishes, chosen      *)
(* nondeterministically.  A command built with exec.CommandContext(ctx)    *)
(* fails once ctx is cancelled.                                            *)
(*                                                                         *)
(* Two functions of VMManager are modelled on their own, on strings as     *)
(* sequences of characters: GetRegistryPath and the address check of       *)
(* waitForIP (ipRegex).  Further sections follow single procedures step by *)
(* step: the poll loop of waitForIP, GetRegistrationToken, the image       *)
(* reference from ImageExists to Clone, resizeCachedImage, the sequential *)
(* single-VM loop that preceded the slot-based one, the log tailer of the  *)
(* monitor daemon, the goroutine that waits for the VM process, the        *)
(* presence check on image names with a registry host, the loop with a     *)
(* concurrency bound of 0, and the registrations made by ConfigureRunner.  *)
(* The loop is also followed under a fair scheduler (SpecLive).            *)
(***************************************************************************)
EXTENDS Integers, Sequences, FiniteSets, TLC

\* Largest configured options.max_concurrent_runners explored.
MaxConcurrentRunners == 2
\* Number of times the TUI starts the runner loop in one process.
MaxRuns == 2
\* Worker goroutines that have returned their slot but not yet run wg.Done.
MaxExiting == 1

SlotIds == 0..(MaxConcurrentRunners - 1)

VARIABLES
    cfg,        \* the validated configuration (read-only)
    runs,       \* how many times Run has been invoked in this process
    runPc,      \* position of the Run goroutine
    runErr,     \* value returned by the last Run
    ctxDone,    \* ctx.Done() of Run's context is closed
    initOnce,   \* sync.Once of the current Run has fired
    initErr,    \* initErr of the current Run
    initCount,  \* executions of the initialization body in this process
    initRuns,   \* executions of the initialization body in the current Run
    flagFile,   \* the shutdown-flag file exists
    shutdownBy, \* which check sent the Dispatcher to wg.Wait
    slots,      \* contents of the slots channel
    wg,         \* counter of the WaitGroup
    exiting,    \* goroutines between "slots <- slot" and wg.Done
    wpc,        \* per slot: position of the worker goroutine holding it
    werr,       \* per slot: the error runOnce returns: "nil", "token", "err"
    created,    \* per slot: Clone of this iteration created the instance
    cleanups,   \* per slot: Cleanup invocations of this iteration
    delRes,     \* per slot: outcome of Cleanup's Delete in this iteration
    jobEnd,     \* per slot: how the RunRunner command ended, until runOnce returns
    vmProc,     \* per slot: the "tart run" process, until Cleanup has run
    vms,        \* instance names (slot ids) that exist in tart
    registry,   \* cfg.Registry: url and imageName, as character sequences
    registryPath, \* the value returned by GetRegistryPath, once called
    ip,         \* the trimmed output of "tart ip" that waitForIP looks at
    ipMatch,    \* what ipRegex.MatchString(ip) said: "pending" before the call
    polls,      \* waitForIP: ticks of the 1 s ticker taken so far
    waitErr,    \* waitForIP: "none", or the error it returned
    http,       \* GetRegistrationToken: what the endpoint and the network do
    tokenPc,    \* GetRegistrationToken: "call", "sent", "returned"
    requests,   \* GetRegistrationToken: calls of g.client.Do in this call
    tokenRes,   \* GetRegistrationToken: the (token, error) returned
    listOutput, \* image reference: the names "tart list" prints
    imgPc,      \* image reference: position of the image initializer
    imageRef,   \* image reference: imageRef of each VMManager object made
    mgr,        \* image reference: the VMManager of each Worker, 0 if none
    refPc,      \* image reference: position of each Worker's iteration
    cloneRef,   \* image reference: the source each Worker cloned from
    rzPc,       \* resize: position in resizeCachedImage
    rzErr,      \* resize: "nil", or the step whose error is returned
    probe,      \* resize: the instance "truncate_instance" exists
    probeProc,  \* resize: the "tart run" process of the probe VM
    rzStopRan,  \* resize: the deferred "tart stop" was started
    rzDeleteRan, \* resize: the deferred "tart delete" was started
    tailPc,     \* log tailer: "off" before Start, "polling" after seekToEnd
    logFile,    \* log tailer: the bytes of the monitored file
    offset,     \* log tailer: t.offset
    forwarded,  \* log tailer: the lines handed to CaptureLogEvent, in order
    appended,   \* log tailer: the bytes written to the file since Start
    truncated,  \* log tailer: the file was truncated or rotated since Start
    vmDone,     \* VM exit wait: the values buffered in the vmDone channel
    waiterPc,   \* VM exit wait: position of the goroutine around vmCmd.Wait
    regs        \* registration: <<name, slot>> entries held by the coordinator

pathVars == <<registry, registryPath>>
ipVars   == <<ip, ipMatch>>
waitVars == <<polls, waitErr>>
tokenVars == <<http, tokenPc, requests, tokenRes>>
refVars == <<listOutput, imgPc, imageRef, mgr, refPc, cloneRef>>
resizeVars == <<rzPc, rzErr, probe, probeProc, rzStopRan, rzDeleteRan>>
tailVars == <<tailPc, logFile, offset, forwarded, appended, truncated>>
doneVars == <<vmDone, waiterPc>>
regVars == <<regs>>
extraVars == <<tailVars, doneVars, regVars>>

\* The variables of the procedures modelled on their own.
pureVars == <<pathVars, ipVars, waitVars, tokenVars, refVars, resizeVars,
             extraVars>>

vars == <<cfg, runs, runPc, runErr, ctxDone, initOnce, initErr, initCount,
          initRuns, flagFile, shutdownBy, slots, wg, exiting, wpc, werr,
          created, cleanups, delRes, jobEnd, vmProc, vms, pureVars>>

runVars  == <<runs, runPc, runErr, initOnce, initErr, initCount, initRuns,
              shutdownBy>>
poolVars == <<slots, wg, exiting>>
histVars == <<created, cleanups, delRes, jobEnd>>

\* Configurations: concurrency bound, shutdown_flag_file set, registry url
\* set, registry username set (a username without a url is never read).
Configs ==
    {c \in [n : 1..MaxConcurrentRunners, flag : BOOLEAN, url : BOOLEAN,
            user : BOOLEAN] : c.user => c.url}

\* cfg.GitHub.RunnerName, the same for every Worker of a run.
RunnerName == "runner"

\* Variant: the name is built from slot id 0 in every Worker.
InstanceNameOfSlotZero(slot) == <<RunnerName, "_", 0>>

\* fmt.Sprintf("%s_%d", cfg.GitHub.RunnerName, slotID): the runner name, an
\* underscore and the slot id in decimal.
InstanceName(slot) == <<RunnerName, "_", slot>>

\* Variant: the fill loop runs once too often (i <= N).
InitialSlotsOneMore(n) == [i \in 1..(n + 1) |-> i - 1]

\* Variant: a bound below 1 is raised to 1 before the channel is filled.
InitialSlotsAtLeastOne(n) == [i \in 1..(IF n < 1 THEN 1 ELSE n) |-> i - 1]

\* for i := 0; i < N; i++ { slots <- i }
InitialSlots(n) == [i \in 1..n |-> i - 1]

\* The runner loop before Run is called.
IdleInit ==
    /\ runs = 0
    /\ runPc = "idle"
    /\ runErr = "nil"
    /\ ctxDone = FALSE
    /\ initOnce = FALSE
    /\ initErr = "nil"
    /\ initCount = 0
    /\ initRuns = 0
    /\ flagFile = FALSE
    /\ shutdownBy = "none"
    /\ slots = <<>>
    /\ wg = 0
    /\ exiting = 0
    /\ wpc = [s \in SlotIds |-> "idle"]
    /\ werr = [s \in SlotIds |-> "nil"]
    /\ created = [s \in SlotIds |-> FALSE]
    /\ cleanups = [s \in SlotIds |-> 0]
    /\ delRes = [s \in SlotIds |-> "none"]
    /\ jobEnd = [s \in SlotIds |-> "none"]
    /\ vmProc = [s \in SlotIds |-> "none"]
    /\ vms = {}

\* GetRegistryPath has not been called.
PathIdle ==
    /\ registry = [url |-> <<>>, imageName |-> <<>>]
    /\ registryPath = <<>>

\* The address check has not been called.
IpIdle ==
    /\ ip = <<>>
    /\ ipMatch = "pending"

\* waitForIP has not been entered.
WaitIdle ==
    /\ polls = 0
    /\ waitErr = "none"

\* No call of GetRegistrationToken is followed step by step.
TokenIdle ==
    /\ http = [parses |-> TRUE, transport |-> TRUE, read |-> TRUE,
               status |-> 0, json |-> TRUE, token |-> <<>>]
    /\ tokenPc = "returned"
    /\ requests = 0
    /\ tokenRes = [token |-> <<>>, err |-> "nil"]

\* No VMManager exists and no image reference has been resolved.
RefIdle ==
    /\ listOutput = {}
    /\ imgPc = "off"
    /\ imageRef = <<>>
    /\ mgr = [s \in SlotIds |-> 0]
    /\ refPc = [s \in SlotIds |-> "off"]
    /\ cloneRef = [s \in SlotIds |-> <<>>]

\* resizeCachedImage has not been called.
ResizeIdle ==
    /\ rzPc = "off"
    /\ rzErr = "nil"
    /\ probe = FALSE
    /\ probeProc = "none"
    /\ rzStopRan = FALSE
    /\ rzDeleteRan = FALSE

\* The log tailer has not been started.
TailIdle ==
    /\ tailPc = "off"
    /\ logFile = <<>>
    /\ offset = 0
    /\ forwarded = <<>>
    /\ appended = <<>>
    /\ truncated = FALSE

\* No goroutine waits for a VM process.
DoneIdle ==
    /\ vmDone = <<>>
    /\ waiterPc = "off"

\* The registrations at the coordinator are not followed.
RegIdle == regs = {}

\* The procedures added last have not been called.
ExtraIdle ==
    /\ TailIdle
    /\ DoneIdle
    /\ RegIdle

\* None of the procedures modelled on their own has been called.
PureIdle ==
    /\ PathIdle
    /\ IpIdle
    /\ WaitIdle
    /\ TokenIdle
    /\ RefIdle
    /\ ResizeIdle
    /\ ExtraIdle

Init ==
    /\ cfg \in Configs
    /\ IdleInit
    /\ PureIdle

----
\* The Dispatcher: runner.Run

\* runRunnerCmd -> runner.Run: CheckDependencies, context.WithCancel, the
\* declaration of initOnce and initErr.
RunBegins ==
    /\ runs' = runs + 1
    /\ \E depsOk \in BOOLEAN :
         IF depsOk
         THEN /\ runPc' = "initImage"
              /\ runErr' = "nil"
              /\ ctxDone' = FALSE
         ELSE /\ runPc' = "returned"
              /\ runErr' = "deps"
              /\ UNCHANGED ctxDone
    /\ initOnce' = FALSE
    /\ initErr' = "nil"
    /\ initRuns' = 0
    /\ shutdownBy' = "none"
    /\ slots' = <<>>
    /\ wg' = 0
    /\ UNCHANGED <<cfg, pureVars, initCount, flagFile, exiting, wpc, werr, histVars,
                   vmProc, vms>>

\* The process starts the runner loop: "rvmm run", or the first "Run runner"
\* of the TUI.
StartRun ==
    /\ runPc = "idle"
    /\ RunBegins

\* The TUI starts the runner loop again after the previous Run has returned
\* (taskDoneMsg cleared m.busy and m.runnerActive).
Restart ==
    /\ runPc = "returned"
    /\ runs < MaxRuns
    /\ RunBegins

\* cancel(): the signal goroutine (SIGINT/SIGTERM) or the parent context
\* (the TUI's stopRunnerIfActive); both close the same ctx.Done().
Cancel ==
    /\ runPc \notin {"idle", "returned"}
    /\ ~ctxDone
    /\ ctxDone' = TRUE
    /\ UNCHANGED <<cfg, pureVars, runVars, flagFile, poolVars, wpc, werr, histVars,
                   vmProc, vms>>

\* The operator creates the shutdown-flag file.
CreateFlag ==
    /\ cfg.flag
    /\ runPc \notin {"idle", "returned"}
    /\ ~flagFile
    /\ flagFile' = TRUE
    /\ UNCHANGED <<cfg, pureVars, runVars, ctxDone, poolVars, wpc, werr, histVars,
                   vmProc, vms>>

\* The operator removes the shutdown-flag file between two runs.
RemoveFlag ==
    /\ runPc = "returned"
    /\ flagFile
    /\ flagFile' = FALSE
    /\ UNCHANGED <<cfg, pureVars, runVars, ctxDone, poolVars, wpc, werr, histVars,
                   vmProc, vms>>

\* initImage(): initOnce.Do(body)
InitImage ==
    /\ runPc = "initImage"
    /\ IF ~initOnce
       THEN /\ initOnce' = TRUE
            /\ runPc' = "login"
       ELSE /\ runPc' = "initDone"
            /\ UNCHANGED initOnce
    /\ UNCHANGED <<cfg, pureVars, runs, runErr, initErr, initCount, initRuns, shutdownBy,
                   ctxDone, flagFile, poolVars, wpc, werr, histVars, vmProc,
                   vms>>

\* The body of initOnce.Do starts: vm := NewVMManager(cfg, log) and
\* vm.Login(ctx).  Login runs no command without url and username; "tart
\* login" fails under a cancelled ctx.
Login ==
    /\ runPc = "login"
    /\ initCount' = initCount + 1
    /\ initRuns' = initRuns + 1
    /\ \E ok \in BOOLEAN :
         /\ (~cfg.url \/ ~cfg.user) => ok
         /\ (cfg.url /\ cfg.user /\ ctxDone) => ~ok
         /\ IF ok
            THEN runPc' = "imageExists" /\ UNCHANGED initErr
            ELSE runPc' = "initDone" /\ initErr' = "login"
    /\ UNCHANGED <<cfg, pureVars, runs, runErr, initOnce, shutdownBy, ctxDone, flagFile,
                   poolVars, wpc, werr, histVars, vmProc, vms>>

\* Variant: an absent image is pulled whatever cfg.Registry.URL is.
AfterImageExistsPullAnyway(res, hasUrl) ==
    CASE res = "err"     -> [pc |-> "initDone", err |-> "check"]
      [] res = "present" -> [pc |-> "initDone", err |-> "nil"]
      [] OTHER           -> [pc |-> "pull", err |-> "nil"]

\* if err != nil { initErr = ...; return }; if !exists { if
\* cfg.Registry.URL == "" { initErr = ...; return }; vm.PullImage(ctx) }
AfterImageExists(res, hasUrl) ==
    CASE res = "err"     -> [pc |-> "initDone", err |-> "check"]
      [] res = "present" -> [pc |-> "initDone", err |-> "nil"]
      [] res = "absent" /\ ~hasUrl
                         -> [pc |-> "initDone", err |-> "nourl"]
      [] OTHER           -> [pc |-> "pull", err |-> "nil"]

\* vm.ImageExists(ctx) and the branch on its result: "tart list" fails, or
\* the image is listed, or it is not and must be pulled from cfg.Registry.URL.
ImageExists ==
    /\ runPc = "imageExists"
    /\ \E res \in {"err", "present", "absent"} :
         /\ ctxDone => res = "err"
         /\ LET next == AfterImageExists(res, cfg.url) IN
              /\ runPc' = next.pc
              /\ initErr' = IF next.err = "nil" THEN initErr ELSE next.err
    /\ UNCHANGED <<cfg, pureVars, runs, runErr, initOnce, initCount, initRuns,
                   shutdownBy, ctxDone, flagFile, poolVars, wpc, werr,
                   histVars, vmProc, vms>>

\* vm.PullImage(ctx), including the optional resize of the cached disk.
PullImage ==
    /\ runPc = "pull"
    /\ \E ok \in BOOLEAN :
         /\ ctxDone => ~ok
         /\ IF ok
            THEN UNCHANGED initErr
            ELSE initErr' = "pull"
    /\ runPc' = "initDone"
    /\ UNCHANGED <<cfg, pureVars, runs, runErr, initOnce, initCount, initRuns,
                   shutdownBy, ctxDone, flagFile, poolVars, wpc, werr,
                   histVars, vmProc, vms>>

\* Variant: the result of the initialization is not looked at.
InitFailedIgnored == FALSE

\* if initErr != nil
InitFailed == initErr # "nil"

\* if initErr != nil { return initErr }; otherwise create and fill the slot
\* channel and the WaitGroup.  A return runs the deferred cancel().
InitDone ==
    /\ runPc = "initDone"
    /\ IF InitFailed
       THEN /\ runPc' = "returned"
            /\ runErr' = initErr
            /\ ctxDone' = TRUE
            /\ UNCHANGED slots
       ELSE /\ runPc' = "top"
            /\ slots' = InitialSlots(cfg.n)
            /\ UNCHANGED <<runErr, ctxDone>>
    /\ UNCHANGED <<cfg, pureVars, runs, initOnce, initErr, initCount, initRuns,
                   shutdownBy, flagFile, wg, exiting, wpc, werr, histVars,
                   vmProc, vms>>

\* Top of the dispatch loop: select { case <-ctx.Done(): ...; default: }
LoopTop ==
    /\ runPc = "top"
    /\ IF ctxDone
       THEN runPc' = "drain" /\ shutdownBy' = "ctx"
       ELSE runPc' = "flag" /\ UNCHANGED shutdownBy
    /\ UNCHANGED <<cfg, pureVars, runs, runErr, initOnce, initErr, initCount, initRuns,
                   ctxDone, flagFile, poolVars, wpc, werr, histVars, vmProc,
                   vms>>

\* Variant: return at once, as the sequential loop did.
OnShutdownFlagReturn == "returned"

\* What Run does once it has seen the shutdown-flag file: wg.Wait(), then
\* return nil.
OnShutdownFlag == "drain"

\* os.Stat(cfg.Options.ShutdownFlagFile)
CheckFlag ==
    /\ runPc = "flag"
    /\ IF cfg.flag /\ flagFile
       THEN runPc' = OnShutdownFlag /\ shutdownBy' = "flag"
       ELSE runPc' = "acquire" /\ UNCHANGED shutdownBy
    /\ UNCHANGED <<cfg, pureVars, runs, runErr, initOnce, initErr, initCount, initRuns,
                   ctxDone, flagFile, poolVars, wpc, werr, histVars, vmProc,
                   vms>>

\* Variant: the image is ensured again in every dispatch cycle, as the
\* sequential loop did.
NextCycleEnsuresImage == "login"

\* Variant: after spawning a Worker the Dispatcher goes back to the select,
\* without the two checks at the top of the loop.
NextCycleSelectAgain == "acquire"

\* Where the Dispatcher continues after spawning a Worker.
NextCycle == "top"

\* Variant: the select waits for a slot only.
DoneCaseAbsent(cancelled) == FALSE

\* case <-ctx.Done() of the select is ready once ctx is cancelled, whatever
\* the slot channel holds.
DoneCaseReady(cancelled) == cancelled

\* The select on ctx.Done() and slots, branch ctx.Done().
AcquireCancelled ==
    /\ runPc = "acquire"
    /\ DoneCaseReady(ctxDone)
    /\ runPc' = "drain"
    /\ shutdownBy' = "ctx"
    /\ UNCHANGED <<cfg, pureVars, runs, runErr, initOnce, initErr, initCount, initRuns,
                   ctxDone, flagFile, poolVars, wpc, werr, histVars, vmProc,
                   vms>>

\* The select on ctx.Done() and slots, branch slotID = <-slots (Go picks
\* among the ready cases at random), then wg.Add(1) and the go statement.
AcquireSlot ==
    /\ runPc = "acquire"
    /\ Len(slots) > 0
    /\ LET slot == Head(slots) IN
         /\ slots' = Tail(slots)
         /\ wg' = wg + 1
         /\ wpc' = [wpc EXCEPT ![slot] = "token"]
         /\ werr' = [werr EXCEPT ![slot] = "nil"]
         /\ created' = [created EXCEPT ![slot] = FALSE]
         /\ cleanups' = [cleanups EXCEPT ![slot] = 0]
         /\ delRes' = [delRes EXCEPT ![slot] = "none"]
         /\ jobEnd' = [jobEnd EXCEPT ![slot] = "none"]
         /\ vmProc' = [vmProc EXCEPT ![slot] = "none"]
    /\ runPc' = NextCycle
    /\ UNCHANGED <<cfg, pureVars, runs, runErr, initOnce, initErr, initCount, initRuns,
                   shutdownBy, ctxDone, flagFile, exiting, vms>>

\* Variant: Run does not wait for the WaitGroup.
WgWaitSkipped == TRUE

\* wg.Wait() returns when the counter is zero.
WgWaitReturns == wg = 0

\* Variant: a drain started by cancellation returns ctx.Err().
DrainReturnCtxErr(by) == IF by = "ctx" THEN "cancelled" ELSE "nil"

\* Variant: a drain started by the shutdown-flag file returns an error.
DrainReturnFlagErr(by) == IF by = "flag" THEN "flag" ELSE "nil"

\* The value Run returns after the drain, whichever check started it.
DrainReturn(by) == "nil"

\* wg.Wait() returns, Run returns nil, the deferred cancel() runs.
Drain ==
    /\ runPc = "drain"
    /\ WgWaitReturns
    /\ runPc' = "returned"
    /\ runErr' = DrainReturn(shutdownBy)
    /\ ctxDone' = TRUE
    /\ UNCHANGED <<cfg, pureVars, runs, initOnce, initErr, initCount, initRuns,
                   shutdownBy, flagFile, poolVars, wpc, werr, histVars,
                   vmProc, vms>>

----
\* The Worker goroutine and runOnce

dispVars == <<cfg, pureVars, runVars, ctxDone, flagFile>>

\* The variables of the runner loop.
loopVars == <<cfg, runVars, ctxDone, flagFile, poolVars, wpc, werr, histVars,
              vmProc, vms>>

\* Variant: the defer statement is placed after the Clone step.
DeferredAfterClone(step) == step \notin {"token", "clone"}

\* Variant: Cleanup is called at the end of runOnce instead of deferred.
DeferredAtEndOnly(step) == step = "done"

\* Variant: Cleanup is called on the error paths up to the readiness wait
\* and at the end, and not on the error path of ConfigureRunner.
DeferredExceptConfigure(step) == step \notin {"token", "configure"}

\* Variant: the Cleanup is deferred before the token is requested.
DeferredFromEntry(step) == TRUE

\* The steps of runOnce that run after "defer vm.Cleanup(ctx, instanceName)".
Deferred(step) == step # "token"

\* runOnce returns at `step` with error e ("nil" at the end): the deferred
\* Cleanup, if registered, is invoked; otherwise control is back in the
\* worker goroutine.
Return(s, step, e) ==
    /\ werr' = [werr EXCEPT ![s] = e]
    /\ IF Deferred(step)
       THEN /\ wpc' = [wpc EXCEPT ![s] = "cleanupStop"]
            /\ cleanups' = [cleanups EXCEPT ![s] = @ + 1]
       ELSE /\ wpc' = [wpc EXCEPT ![s] = "ret"]
            /\ UNCHANGED cleanups

Goto(s, pc) ==
    /\ wpc' = [wpc EXCEPT ![s] = pc]
    /\ UNCHANGED <<werr, cleanups>>

\* github.GetRegistrationToken(): takes no context.
GetRegistrationToken(s) ==
    /\ wpc[s] = "token"
    /\ \E ok \in BOOLEAN :
         IF ok THEN Goto(s, "clone") ELSE Return(s, "token", "token")
    /\ UNCHANGED <<dispVars, poolVars, created, delRes, jobEnd, vmProc, vms>>

\* Variant: the clone command is built with exec.Command, without ctx.
CloneOutcomesNoCtx(cancelled, taken) == IF taken THEN {FALSE} ELSE BOOLEAN

\* exec.CommandContext(ctx, "tart", "clone", imageRef, instanceName)
\* .CombinedOutput(): under a cancelled ctx the command is not started, and
\* tart refuses a name that is taken; otherwise it succeeds or fails.
CloneOutcomes(cancelled, taken) ==
    IF cancelled \/ taken THEN {FALSE} ELSE BOOLEAN

\* vm.Clone(ctx, instanceName): "tart clone" fails under a cancelled ctx and
\* when the name is taken.
Clone(s) ==
    /\ wpc[s] = "clone"
    /\ \E ok \in CloneOutcomes(ctxDone, InstanceName(s) \in vms) :
         /\ IF ok
            THEN /\ vms' = vms \cup {InstanceName(s)}
                 /\ created' = [created EXCEPT ![s] = TRUE]
                 /\ Goto(s, "start")
            ELSE /\ Return(s, "clone", "err")
                 /\ UNCHANGED <<vms, created>>
    /\ UNCHANGED <<dispVars, poolVars, delRes, jobEnd, vmProc>>

\* vm.Start(ctx, instanceName): exec.CommandContext(ctx, "tart", "run",
\* ...).Start(), and the goroutine that waits for the process.
Start(s) ==
    /\ wpc[s] = "start"
    /\ \E ok \in BOOLEAN :
         /\ ctxDone => ~ok
         /\ IF ok
            THEN /\ vmProc' = [vmProc EXCEPT ![s] = "running"]
                 /\ Goto(s, "waitIP")
            ELSE /\ Return(s, "start", "err")
                 /\ UNCHANGED vmProc
    /\ UNCHANGED <<dispVars, poolVars, created, delRes, jobEnd, vms>>

\* What cancelling ctx does to a process started with
\* exec.CommandContext(ctx, ...): os/exec kills it.
OnCancel(state) == IF state = "running" THEN "killed" ELSE state

\* The "tart run" process of slot s is killed by its cancelled context.
VmKilled(s) ==
    /\ vmProc[s] = "running"
    /\ ctxDone
    /\ OnCancel(vmProc[s]) # vmProc[s]
    /\ vmProc' = [vmProc EXCEPT ![s] = OnCancel(@)]
    /\ UNCHANGED <<dispVars, poolVars, wpc, werr, histVars, vms>>

\* The "tart run" process of slot s exits by itself (guest shutdown, crash).
VmExit(s) ==
    /\ vmProc[s] = "running"
    /\ vmProc' = [vmProc EXCEPT ![s] = "exited"]
    /\ UNCHANGED <<dispVars, poolVars, wpc, werr, histVars, vms>>

\* Variant: the poll loop has no case for ctx.Done() and its probe is not
\* bound to ctx.
PollOutcomesNoCtx(cancelled, running) ==
    {"timeout"} \cup (IF running THEN {"ok"} ELSE {})

\* The ways a poll loop (select on ctx.Done(), the 5 minute timeout and the
\* 1 s ticker whose probe is a command bound to ctx) can end.
PollOutcomes(cancelled, running) ==
    {"timeout"} \cup (IF cancelled THEN {"cancelled"} ELSE {})
                \cup (IF ~cancelled /\ running THEN {"ok"} ELSE {})

\* Variant: only cancellation makes runOnce return from a wait; a timeout is
\* logged and the next step is started.
PollFailedOnCancelOnly(res) == res = "cancelled"

\* if err != nil { return fmt.Errorf(...) } after a wait: any error of the
\* poll loop ends the iteration.
PollFailed(res) == res # "ok"

\* vm.WaitForIP(ctx, instanceName): leaves the poll loop with an address,
\* on the 5 minute timeout, or on ctx.Done().
WaitForIP(s) ==
    /\ wpc[s] = "waitIP"
    /\ \E res \in PollOutcomes(ctxDone, vmProc[s] = "running") :
         IF PollFailed(res) THEN Return(s, "ip", "err") ELSE Goto(s, "waitSSH")
    /\ UNCHANGED <<dispVars, poolVars, created, delRes, jobEnd, vmProc, vms>>

\* ssh.WaitForSSH(ctx, ip)
WaitForSSH(s) ==
    /\ wpc[s] = "waitSSH"
    /\ \E res \in PollOutcomes(ctxDone, vmProc[s] = "running") :
         IF PollFailed(res) THEN Return(s, "ssh", "err") ELSE Goto(s, "configure")
    /\ UNCHANGED <<dispVars, poolVars, created, delRes, jobEnd, vmProc, vms>>

\* ssh.ConfigureRunner(ctx, ip, token, instanceName); on success runOnce
\* goes on to ssh.RunRunner(ctx, ip), whose command then executes.
ConfigureRunner(s) ==
    /\ wpc[s] = "configure"
    /\ \E ok \in BOOLEAN :
         /\ ok => (~ctxDone /\ vmProc[s] = "running")
         /\ IF ok THEN Goto(s, "job") ELSE Return(s, "configure", "err")
    /\ UNCHANGED <<dispVars, poolVars, created, delRes, jobEnd, vmProc, vms>>

\* How a remote command started with exec.CommandContext(ctx, ...) can end.
CommandEnds(cancelled) ==
    IF cancelled THEN {"exit0", "exitErr", "killed"} ELSE {"exit0", "exitErr"}

\* Variant: runOnce returns the error of ssh.RunRunner like that of the
\* steps before it.
JobErrorReturnedIfAny(res) == res # "exit0"

\* if err := ssh.RunRunner(ctx, ip); err != nil { log.Info(...) }: no return.
JobErrorReturned(res) == FALSE

\* ssh.RunRunner returns: the runner process exited, or the ssh command was
\* killed by the cancelled ctx.  Any error is only logged.
RunRunner(s) ==
    /\ wpc[s] = "job"
    /\ \E res \in CommandEnds(ctxDone) :
         /\ jobEnd' = [jobEnd EXCEPT ![s] = res]
         /\ IF JobErrorReturned(res)
            THEN Return(s, "job", "err")
            ELSE Goto(s, "stop")
    /\ UNCHANGED <<dispVars, poolVars, created, delRes, vmProc, vms>>

\* Variant: runOnce returns the error of vm.Stop.
StopErrorReturnedIfAny(ok) == ~ok

\* if err := vm.Stop(ctx, instanceName); err != nil { log.Warn(...) }: no
\* return.
StopErrorReturned(ok) == FALSE

\* vm.Stop(ctx, instanceName) after the job; an error is only logged.
Stop(s) ==
    /\ wpc[s] = "stop"
    /\ \E ok \in BOOLEAN :
         /\ ok => (~ctxDone /\ vmProc[s] = "running")
         /\ vmProc' = IF ok THEN [vmProc EXCEPT ![s] = "exited"] ELSE vmProc
         /\ IF StopErrorReturned(ok)
            THEN Return(s, "stop", "err")
            ELSE Goto(s, "waitVM")
    /\ UNCHANGED <<dispVars, poolVars, created, delRes, jobEnd, vms>>

\* Variant: the select has no timer case, only case <-vmDone.
VmWaitReadyOnExitOnly(state) == state # "running"

\* select { case <-vmDone: case <-time.After(30 * time.Second): }: the
\* timer case becomes ready whether or not the process has exited.
VmWaitReady(state) == TRUE

\* select { case <-vmDone: case <-time.After(30 * time.Second): }, then
\* "return nil".
WaitVM(s) ==
    /\ wpc[s] = "waitVM"
    /\ VmWaitReady(vmProc[s])
    /\ Return(s, "done", "nil")
    /\ jobEnd' = [jobEnd EXCEPT ![s] = "none"]
    /\ UNCHANGED <<dispVars, poolVars, created, delRes, vmProc, vms>>

\* Variant: Cleanup runs its commands under the ctx it is given.
CleanupCtxDoneWithCtx(cancelled) == cancelled

\* cleanupCtx is context.WithTimeout(context.Background(), 30 * time.Second):
\* the cancellation of ctx does not reach it.
CleanupCtxDone(cancelled) == FALSE

\* Variant: Cleanup returns when its Stop fails.
AfterCleanupStopChecked(ok) == IF ok THEN "cleanupDelete" ELSE "ret"

\* The statement after v.Stop(cleanupCtx, instanceName), whose result is
\* dropped: v.Delete(cleanupCtx, instanceName).
AfterCleanupStop(ok) == "cleanupDelete"

\* VMManager.Cleanup: v.Stop(cleanupCtx, instanceName), error ignored.
CleanupStop(s) ==
    /\ wpc[s] = "cleanupStop"
    /\ \E ok \in BOOLEAN :
         /\ ok => (vmProc[s] = "running" /\ ~CleanupCtxDone(ctxDone))
         /\ vmProc' = IF ok THEN [vmProc EXCEPT ![s] = "exited"] ELSE vmProc
         /\ Goto(s, AfterCleanupStop(ok))
    /\ UNCHANGED <<dispVars, poolVars, histVars, vms>>

\* VMManager.Cleanup: v.Delete(cleanupCtx, instanceName), error ignored;
\* runOnce has then returned.
CleanupDelete(s) ==
    /\ wpc[s] = "cleanupDelete"
    /\ \E ok \in BOOLEAN :
         /\ ok => (InstanceName(s) \in vms /\ ~CleanupCtxDone(ctxDone))
         /\ vms' = IF ok THEN vms \ {InstanceName(s)} ELSE vms
         /\ delRes' = [delRes EXCEPT ![s] = IF ok THEN "ok" ELSE "fail"]
    /\ vmProc' = [vmProc EXCEPT ![s] = "none"]
    /\ Goto(s, "ret")
    /\ UNCHANGED <<dispVars, poolVars, created, jobEnd>>

\* Variant: the goroutine sleeps after every failed iteration.
AfterRunOnceNoCtxCheck(failed, cancelled) ==
    IF failed THEN "sleep" ELSE "release"

\* if err := runOnce(...); err != nil { if ctx.Err() != nil { return };
\* time.Sleep(10 * time.Second) }
AfterRunOnce(failed, cancelled) ==
    IF failed /\ ~cancelled THEN "sleep" ELSE "release"

\* The worker goroutine after runOnce: on an error without cancellation it
\* sleeps 10 s, otherwise it returns at once.
WorkerRet(s) ==
    /\ wpc[s] = "ret"
    /\ Goto(s, AfterRunOnce(werr[s] # "nil", ctxDone))
    /\ UNCHANGED <<dispVars, poolVars, created, delRes, jobEnd, vmProc, vms>>

\* time.Sleep(10 * time.Second) is over.
Sleep(s) ==
    /\ wpc[s] = "sleep"
    /\ Goto(s, "release")
    /\ UNCHANGED <<dispVars, poolVars, created, delRes, jobEnd, vmProc, vms>>

\* Variant: the deferred function reads a variable shared by the goroutines
\* instead of its own parameter.
SlotSentShared(slot) == 0

\* The value the deferred function sends: the parameter `slot` of the
\* goroutine, bound to slotID by the go statement.
SlotSent(slot) == slot

\* The deferred "slots <- slot".
ReleaseSlot(s) ==
    /\ wpc[s] = "release"
    /\ exiting < MaxExiting
    /\ slots' = Append(slots, SlotSent(s))
    /\ exiting' = exiting + 1
    /\ wpc' = [wpc EXCEPT ![s] = "idle"]
    /\ werr' = [werr EXCEPT ![s] = "nil"]
    /\ created' = [created EXCEPT ![s] = FALSE]
    /\ cleanups' = [cleanups EXCEPT ![s] = 0]
    /\ delRes' = [delRes EXCEPT ![s] = "none"]
    /\ jobEnd' = [jobEnd EXCEPT ![s] = "none"]
    /\ UNCHANGED <<dispVars, wg, vmProc, vms>>

\* The deferred wg.Done() of a goroutine that has returned its slot.
WgDone ==
    /\ exiting > 0
    /\ exiting' = exiting - 1
    /\ wg' = wg - 1
    /\ UNCHANGED <<dispVars, slots, wpc, werr, histVars, vmProc, vms>>

Worker(s) ==
    \/ GetRegistrationToken(s)
    \/ Clone(s)
    \/ Start(s)
    \/ VmKilled(s)
    \/ VmExit(s)
    \/ WaitForIP(s)
    \/ WaitForSSH(s)
    \/ ConfigureRunner(s)
    \/ RunRunner(s)
    \/ Stop(s)
    \/ WaitVM(s)
    \/ CleanupStop(s)
    \/ CleanupDelete(s)
    \/ WorkerRet(s)
    \/ Sleep(s)
    \/ ReleaseSlot(s)

Next ==
    \/ StartRun
    \/ Cancel
    \/ CreateFlag
    \/ InitImage
    \/ Login
    \/ ImageExists
    \/ PullImage
    \/ InitDone
    \/ LoopTop
    \/ CheckFlag
    \/ AcquireCancelled
    \/ AcquireSlot
    \/ Drain
    \/ WgDone
    \/ \E s \in SlotIds : Worker(s)

\* One process that runs the loop once: "rvmm run".
Spec == Init /\ [][Next]_vars

\* The steps of the goroutine that executes Run.
DispatcherStep ==
    \/ InitImage
    \/ Login
    \/ ImageExists
    \/ PullImage
    \/ InitDone
    \/ LoopTop
    \/ CheckFlag
    \/ AcquireCancelled
    \/ AcquireSlot
    \/ Drain

\* The steps of the Worker goroutine of slot s; the exit of the VM process
\* is not one of them.
WorkerStep(s) ==
    \/ GetRegistrationToken(s)
    \/ Clone(s)
    \/ Start(s)
    \/ WaitForIP(s)
    \/ WaitForSSH(s)
    \/ ConfigureRunner(s)
    \/ RunRunner(s)
    \/ Stop(s)
    \/ WaitVM(s)
    \/ CleanupStop(s)
    \/ CleanupDelete(s)
    \/ WorkerRet(s)
    \/ Sleep(s)
    \/ ReleaseSlot(s)

\* The Go scheduler runs every goroutine that can run, and every external
\* command and every wait ends by its timeout at the latest.
Fairness ==
    /\ WF_vars(DispatcherStep)
    /\ WF_vars(WgDone)
    /\ \A s \in SlotIds : WF_vars(WorkerStep(s))

\* The configuration followed under fairness: two slots, a shutdown-flag
\* file, a registry with credentials.
InitLive ==
    /\ cfg = [n |-> MaxConcurrentRunners, flag |-> TRUE, url |-> TRUE,
              user |-> TRUE]
    /\ IdleInit
    /\ PureIdle

\* The loop of one process under a fair scheduler.
SpecLive == InitLive /\ [][Next]_vars /\ Fairness

NextTUI ==
    \/ Next
    \/ Restart
    \/ RemoveFlag

\* The TUI process, which can start the loop again after it has returned.
SpecTUI == Init /\ [][NextTUI]_vars

----
\* VMManager.GetRegistryPath, on strings as sequences of characters

\* Longest registry_url and image_name drawn from RegChars.
MaxUrlLen == 3
MaxNameLen == 5

RegChars == {"a", "/", ":"}

Strings(chars, maxLen) == UNION {[1..n -> chars] : n \in 0..maxLen}

\* "ghcr.io/org", "ghcr.io/org/runner:latest" and "runner:latest"
GhcrOrg ==
    <<"g", "h", "c", "r", ".", "i", "o", "/", "o", "r", "g">>
GhcrOrgRunnerLatest ==
    <<"g", "h", "c", "r", ".", "i", "o", "/", "o", "r", "g", "/", "r",
      "u", "n", "n", "e", "r", ":", "l", "a", "t", "e", "s", "t">>
RunnerLatest ==
    <<"r", "u", "n", "n", "e", "r", ":", "l", "a", "t", "e", "s", "t">>

\* The values of cfg.Registry.URL and cfg.Registry.ImageName explored.
Registries ==
    [url : Strings(RegChars, MaxUrlLen),
     imageName : Strings(RegChars, MaxNameLen)]
    \cup [url : {<<>>, GhcrOrg}, imageName : {GhcrOrgRunnerLatest, RunnerLatest}]

\* strings.HasPrefix(s, prefix)
HasPrefix(s, prefix) ==
    /\ Len(s) >= Len(prefix)
    /\ SubSeq(s, 1, Len(prefix)) = prefix

\* Variant: the image name is prefixed whenever registry_url is set.
GetRegistryPathAlwaysJoined(url, imageName) ==
    IF url = <<>> THEN imageName ELSE url \o <<"/">> \o imageName

\* VMManager.GetRegistryPath; fmt.Sprintf("%s/%s", a, b) is a, "/", b.
GetRegistryPath(url, imageName) ==
    IF url = <<>>
    THEN imageName
    ELSE LET registryPrefix == url \o <<"/">> IN
         IF HasPrefix(imageName, registryPrefix)
         THEN imageName
         ELSE url \o <<"/">> \o imageName

\* A VMManager built on some configuration; the runner loop is not started.
InitRegistry ==
    /\ registry \in Registries
    /\ registryPath = <<>>
    /\ IpIdle
    /\ WaitIdle
    /\ TokenIdle
    /\ RefIdle
    /\ ResizeIdle
    /\ ExtraIdle
    /\ cfg = [n |-> 1, flag |-> FALSE, url |-> registry.url # <<>>,
              user |-> FALSE]
    /\ IdleInit

\* A caller (ImageExists, PullImage, GetCachePath) resolves the path.
ResolveRegistryPath ==
    /\ registryPath = <<>>
    /\ registryPath' = <<GetRegistryPath(registry.url, registry.imageName)>>
    /\ UNCHANGED <<loopVars, extraVars, resizeVars, registry, ipVars, waitVars, tokenVars, refVars>>

SpecRegistryPath == InitRegistry /\ [][ResolveRegistryPath]_vars

----
\* The address check of VMManager.waitForIP: ipRegex, `^(\d+\.){3}\d+$`

\* Longest output of "tart ip" drawn from IpChars.
MaxIPLen == 9

\* The repetition count {3} of the pattern.
GroupRepeat == 3

IpChars == {"2", "9", ".", "a"}

\* \d of Go's regexp: the ASCII digits.
Digits == {"0", "1", "2", "3", "4", "5", "6", "7", "8", "9"}

\* "192.168.64.10", "not-an-ip", "1.2.3"
Ip192 ==
    <<"1", "9", "2", ".", "1", "6", "8", ".", "6", "4", ".", "1", "0">>
NotAnIp == <<"n", "o", "t", "-", "a", "n", "-", "i", "p">>
OneTwoThree == <<"1", ".", "2", ".", "3">>

\* The trimmed outputs of "tart ip" explored.
IpStrings == Strings(IpChars, MaxIPLen) \cup {Ip192, NotAnIp, OneTwoThree}

\* \d+ from position i: the position after the longest run of digits (the
\* pattern goes on with \. or the end of the text, which no digit matches).
RECURSIVE DigitsEnd(_, _)
DigitsEnd(s, i) ==
    IF i <= Len(s) /\ s[i] \in Digits THEN DigitsEnd(s, i + 1) ELSE i

\* (\d+\.){k} from position i: the position after the match, 0 if none.
RECURSIVE MatchGroups(_, _, _)
MatchGroups(s, i, k) ==
    IF k = 0
    THEN i
    ELSE LET e == DigitsEnd(s, i) IN
         IF e > i /\ e <= Len(s) /\ s[e] = "."
         THEN MatchGroups(s, e + 1, k - 1)
         ELSE 0

\* ipRegex.MatchString(s): ^ and $ are the two ends of the text.
MatchString(s) ==
    LET j == MatchGroups(s, 1, GroupRepeat) IN
        /\ j # 0
        /\ DigitsEnd(s, j) > j
        /\ DigitsEnd(s, j) = Len(s) + 1

\* "tart ip" has printed something; the runner loop is not modelled here.
InitIP ==
    /\ ip \in IpStrings
    /\ ipMatch = "pending"
    /\ PathIdle
    /\ WaitIdle
    /\ TokenIdle
    /\ RefIdle
    /\ ResizeIdle
    /\ ExtraIdle
    /\ cfg = [n |-> 1, flag |-> FALSE, url |-> FALSE, user |-> FALSE]
    /\ IdleInit

\* The ticker branch of waitForIP: if ipRegex.MatchString(ip) { return ip }
CheckIP ==
    /\ ipMatch = "pending"
    /\ ipMatch' = IF MatchString(ip) THEN "accepted" ELSE "rejected"
    /\ UNCHANGED <<loopVars, extraVars, resizeVars, pathVars, ip, waitVars, tokenVars, refVars>>

SpecIP == InitIP /\ [][CheckIP]_vars

----
\* VMManager.waitForIP, poll by poll, inside one iteration of one Worker

\* Ticks of the 1 s ticker that fit into the 5 minute timeout.
TimeoutTicks == 300

\* What one "tart ip" can print, trimmed: an address, something else, nothing.
TartIpOutputs == {Ip192, OneTwoThree, <<>>}

\* The Worker of slot 0, the only slot, has cloned and started its VM and
\* enters waitForIP; the Dispatcher waits for a slot.
InitWaitForIP ==
    /\ cfg = [n |-> 1, flag |-> FALSE, url |-> FALSE, user |-> FALSE]
    /\ runs = 1
    /\ runPc = "acquire"
    /\ runErr = "nil"
    /\ ctxDone = FALSE
    /\ initOnce = TRUE
    /\ initErr = "nil"
    /\ initCount = 1
    /\ initRuns = 1
    /\ flagFile = FALSE
    /\ shutdownBy = "none"
    /\ slots = <<>>
    /\ wg = 1
    /\ exiting = 0
    /\ wpc = [s \in SlotIds |-> IF s = 0 THEN "waitIP" ELSE "idle"]
    /\ werr = [s \in SlotIds |-> "nil"]
    /\ created = [s \in SlotIds |-> s = 0]
    /\ cleanups = [s \in SlotIds |-> 0]
    /\ delRes = [s \in SlotIds |-> "none"]
    /\ jobEnd = [s \in SlotIds |-> "none"]
    /\ vmProc = [s \in SlotIds |-> IF s = 0 THEN "running" ELSE "none"]
    /\ vms = {InstanceName(0)}
    /\ PathIdle
    /\ IpIdle
    /\ WaitIdle
    /\ TokenIdle
    /\ RefIdle
    /\ ResizeIdle
    /\ ExtraIdle

\* Variant: the select has no timeout case.
TimeoutReadyNever(n) == FALSE

\* case <-timeout: the channel of time.After(5 * time.Minute) is ready.
TimeoutReady(n) == n >= TimeoutTicks

\* case <-ticker.C: one "tart ip" bound to ctx.  A failed command (the
\* first disjunct; the only outcome under a cancelled ctx) and an output
\* ipRegex does not match go back to the select; a match returns the address
\* to runOnce, which goes on to the readiness wait.
PollTick ==
    /\ wpc[0] = "waitIP"
    /\ polls' = IF polls < TimeoutTicks THEN polls + 1 ELSE polls
    /\ \/ UNCHANGED <<ipVars, wpc, werr, cleanups>>
       \/ /\ ~ctxDone
          /\ \E out \in TartIpOutputs :
               /\ MatchString(out) => vmProc[0] = "running"
               /\ ip' = out
               /\ ipMatch' = IF MatchString(out)
                             THEN "accepted"
                             ELSE "rejected"
               /\ IF MatchString(out)
                  THEN Goto(0, "waitSSH")
                  ELSE UNCHANGED <<wpc, werr, cleanups>>
    /\ UNCHANGED <<cfg, extraVars, resizeVars, pathVars, tokenVars, refVars, waitErr, runVars, ctxDone,
                   flagFile, poolVars, created, delRes, jobEnd, vmProc, vms>>

\* case <-timeout: return "", fmt.Errorf("timeout waiting for VM IP"); runOnce
\* returns the error and its deferred Cleanup starts.
PollTimeout ==
    /\ wpc[0] = "waitIP"
    /\ TimeoutReady(polls)
    /\ waitErr' = "timeout"
    /\ Return(0, "ip", "err")
    /\ UNCHANGED <<cfg, extraVars, resizeVars, pathVars, ipVars, tokenVars, refVars, polls, runVars, ctxDone,
                   flagFile, poolVars, created, delRes, jobEnd, vmProc, vms>>

\* case <-ctx.Done(): return "", ctx.Err(); runOnce returns the error and
\* its deferred Cleanup starts.
PollCancelled ==
    /\ wpc[0] = "waitIP"
    /\ ctxDone
    /\ waitErr' = "cancelled"
    /\ Return(0, "ip", "err")
    /\ UNCHANGED <<cfg, extraVars, resizeVars, pathVars, ipVars, tokenVars, refVars, polls, runVars, ctxDone,
                   flagFile, poolVars, created, delRes, jobEnd, vmProc, vms>>

NextWaitForIP ==
    \/ PollTick
    \/ PollTimeout
    \/ PollCancelled
    \/ Cancel
    \/ VmKilled(0)
    \/ VmExit(0)
    \/ CleanupStop(0)
    \/ CleanupDelete(0)

\* The ticker keeps ticking, a select whose timeout or ctx.Done() case stays
\* ready takes it in the end (Go chooses among ready cases at random), and
\* the commands of Cleanup end, at the latest with their 30 s context.
SpecWaitForIP ==
    /\ InitWaitForIP
    /\ [][NextWaitForIP]_vars
    /\ WF_vars(PollTick)
    /\ WF_vars(PollTimeout)
    /\ WF_vars(PollCancelled)
    /\ WF_vars(CleanupStop(0))
    /\ WF_vars(CleanupDelete(0))

----
\* GetRegistrationToken (internal/runner/github.go), one call followed step
\* by step.  The endpoint and the network are an input: what each step of the
\* call meets is drawn once, in InitToken.

StatusCreated == 201

\* Response codes the endpoint may answer with.
StatusCodes == {200, StatusCreated, 401, 404, 500}

\* Token strings a parsed response may carry; <<>> is the empty string, also
\* what Unmarshal leaves when the body has no "token" member.
ResponseTokens == {<<>>, <<"A">>}

\* Run is only entered with a configuration Validate accepted, and Validate
\* rejects a registration_endpoint that url.Parse fails on; http.NewRequest
\* with method POST and no body fails on nothing else.
EndpointParses == {TRUE}

HttpOutcomes ==
    [parses : EndpointParses, transport : BOOLEAN, read : BOOLEAN,
     status : StatusCodes, json : BOOLEAN, token : ResponseTokens]

InitToken ==
    /\ http \in HttpOutcomes
    /\ tokenPc = "call"
    /\ requests = 0
    /\ tokenRes = [token |-> <<>>, err |-> "nil"]
    /\ PathIdle
    /\ IpIdle
    /\ WaitIdle
    /\ RefIdle
    /\ ResizeIdle
    /\ ExtraIdle
    /\ cfg = [n |-> 1, flag |-> FALSE, url |-> TRUE, user |-> FALSE]
    /\ IdleInit

\* Variant: every 2xx status is taken as success.
StatusAcceptedAny2xx(code) == code \in 200..299

\* resp.StatusCode != http.StatusCreated is the failure test.
StatusAccepted(code) == code = StatusCreated

\* http.NewRequest, the headers, and g.client.Do(req).
DoRequest ==
    /\ tokenPc = "call"
    /\ IF ~http.parses
       THEN /\ tokenRes' = [token |-> <<>>, err |-> "create"]
            /\ tokenPc' = "returned"
            /\ UNCHANGED requests
       ELSE /\ requests' = requests + 1
            /\ IF ~http.transport
               THEN /\ tokenRes' = [token |-> <<>>, err |-> "request"]
                    /\ tokenPc' = "returned"
               ELSE /\ tokenPc' = "sent"
                    /\ UNCHANGED tokenRes
    /\ UNCHANGED <<loopVars, extraVars, resizeVars, pathVars, ipVars, waitVars, refVars, http>>

\* io.ReadAll, the status test, json.Unmarshal and the empty-token test, in
\* the order of the code; the first that fails decides the error.
ReadResponse ==
    /\ tokenPc = "sent"
    /\ tokenPc' = "returned"
    /\ tokenRes' =
         IF ~http.read THEN [token |-> <<>>, err |-> "read"]
         ELSE IF ~StatusAccepted(http.status)
              THEN [token |-> <<>>, err |-> "status"]
         ELSE IF ~http.json THEN [token |-> <<>>, err |-> "parse"]
         ELSE IF http.token = <<>> THEN [token |-> <<>>, err |-> "empty"]
         ELSE [token |-> http.token, err |-> "nil"]
    /\ UNCHANGED <<loopVars, extraVars, resizeVars, pathVars, ipVars, waitVars, refVars, http,
                   requests>>

NextToken ==
    \/ DoRequest
    \/ ReadResponse

SpecToken == InitToken /\ [][NextToken]_vars

----
\* The image reference: what ImageExists resolves in the initializer's
\* VMManager and what Clone passes to "tart clone" in a Worker's VMManager
\* (internal/setup/setup.go, internal/runner/loop.go).  VMManager objects are
\* numbered in the order NewVMManager makes them; imageRef[m] is the field of
\* object m.

\* VMManager objects one run may make.
MaxManagers == 4

\* registry_url "g" and image names "r", "r:l", ":l" and "g/r:l"; Validate
\* rejects an empty image name.
RefRegistries ==
    [url : {<<>>, <<"g">>},
     imageName : {<<"r">>, <<"r", ":", "l">>, <<":", "l">>,
                  <<"g", "/", "r", ":", "l">>}]

\* Names "tart list" may print: a local VM "r", a local VM "x", the cached
\* images "g/r:l" and "r:l".
ListedNames ==
    {<<"r">>, <<"x">>, <<"g", "/", "r", ":", "l">>, <<"r", ":", "l">>}

\* strings.Contains on one line
ContainsStr(s, sub) ==
    \E i \in 0..(Len(s) - Len(sub)) : SubSeq(s, i + 1, i + Len(sub)) = sub

\* strings.Contains(listOutput, ref): the output is the listed names, one a
\* line, and a reference holds no line break.
Contains(list, ref) == \E line \in list : ContainsStr(line, ref)

\* strings.Index(s, ":"), counted from 0; -1 when there is none.
IndexColon(s) ==
    IF \E i \in 1..Len(s) : s[i] = ":"
    THEN (CHOOSE i \in 1..Len(s) :
            s[i] = ":" /\ \A j \in 1..(i - 1) : s[j] # ":") - 1
    ELSE -1

\* VMManager.ImageExists after a successful "tart list": whether the image
\* is present, and the value left in v.imageRef.
ResolveImage(list, url, imageName) ==
    LET localRef == imageName
        registryRef == GetRegistryPath(url, imageName)
        idx == IndexColon(localRef)
        localName == IF idx > 0 THEN SubSeq(localRef, 1, idx) ELSE localRef
    IN  IF Contains(list, localRef)
        THEN [exists |-> TRUE, ref |-> localRef]
        ELSE IF localName # localRef /\ Contains(list, localName)
        THEN [exists |-> TRUE, ref |-> localName]
        ELSE IF registryRef # localRef /\ Contains(list, registryRef)
        THEN [exists |-> TRUE, ref |-> registryRef]
        ELSE [exists |-> FALSE, ref |-> registryRef]

\* The VMManager the initializer makes is the first one.
InitManager == 1

\* Run has reached initImage: vm := NewVMManager(cfg, log), Login is over.
InitImageRef ==
    /\ registry \in RefRegistries
    /\ registryPath = <<>>
    /\ listOutput \in SUBSET ListedNames
    /\ imgPc = "exists"
    /\ imageRef = << <<>> >>
    /\ mgr = [s \in SlotIds |-> 0]
    /\ refPc = [s \in SlotIds |-> "off"]
    /\ cloneRef = [s \in SlotIds |-> <<>>]
    /\ IpIdle
    /\ WaitIdle
    /\ TokenIdle
    /\ ResizeIdle
    /\ ExtraIdle
    /\ cfg = [n |-> MaxConcurrentRunners, flag |-> FALSE,
              url |-> registry.url # <<>>, user |-> FALSE]
    /\ IdleInit

\* exists, err := vm.ImageExists(ctx), and the branch on it in initImage.
CheckImage ==
    /\ imgPc = "exists"
    /\ \/ /\ imgPc' = "failed"
          /\ UNCHANGED imageRef
       \/ LET r == ResolveImage(listOutput, registry.url, registry.imageName)
          IN  /\ imageRef' = [imageRef EXCEPT ![InitManager] = r.ref]
              /\ imgPc' = IF r.exists THEN "done"
                          ELSE IF registry.url = <<>> THEN "failed"
                          ELSE "pull"
    /\ UNCHANGED <<loopVars, extraVars, resizeVars, pathVars, ipVars, waitVars, tokenVars,
                   listOutput, mgr, refPc, cloneRef>>

\* vm.PullImage(ctx): ~/.tart is removed, then "tart pull <registry path>".
PullImageRef ==
    /\ imgPc = "pull"
    /\ \/ /\ imgPc' = "failed"
          /\ listOutput' = {}
       \/ /\ imgPc' = "done"
          /\ listOutput' =
               {GetRegistryPath(registry.url, registry.imageName)}
    /\ UNCHANGED <<loopVars, extraVars, resizeVars, pathVars, ipVars, waitVars, tokenVars,
                   imageRef, mgr, refPc, cloneRef>>

\* Variant: the Workers use the VMManager of the initializer.
NewVMManagerShared(next) == InitManager

\* NewVMManager returns a new object.
NewVMManager(next) == next

\* A Worker's goroutine: vm := NewVMManager(cfg, log), with imageRef unset.
WorkerNewVMManager(s) ==
    /\ imgPc = "done"
    /\ refPc[s] = "off"
    /\ Len(imageRef) < MaxManagers
    /\ LET m == NewVMManager(Len(imageRef) + 1) IN
         /\ mgr' = [mgr EXCEPT ![s] = m]
         /\ imageRef' = IF m > Len(imageRef)
                        THEN Append(imageRef, <<>>)
                        ELSE imageRef
    /\ refPc' = [refPc EXCEPT ![s] = "clone"]
    /\ UNCHANGED <<loopVars, extraVars, resizeVars, pathVars, ipVars, waitVars, tokenVars,
                   listOutput, imgPc, cloneRef>>

\* The source argument of "tart clone" in VMManager.Clone.
CloneSource(ref, url, imageName) ==
    IF ref = <<>> THEN GetRegistryPath(url, imageName) ELSE ref

\* vm.Clone(ctx, instanceName) in the Worker's runOnce.
CloneFrom(s) ==
    /\ refPc[s] = "clone"
    /\ cloneRef' = [cloneRef EXCEPT ![s] =
         CloneSource(imageRef[mgr[s]], registry.url, registry.imageName)]
    /\ refPc' = [refPc EXCEPT ![s] = "cloned"]
    /\ UNCHANGED <<loopVars, extraVars, resizeVars, pathVars, ipVars, waitVars, tokenVars,
                   listOutput, imgPc, imageRef, mgr>>

\* runOnce and the goroutine return; the VMManager is dropped.
IterationEnds(s) ==
    /\ refPc[s] = "cloned"
    /\ refPc' = [refPc EXCEPT ![s] = "off"]
    /\ mgr' = [mgr EXCEPT ![s] = 0]
    /\ cloneRef' = [cloneRef EXCEPT ![s] = <<>>]
    /\ UNCHANGED <<loopVars, extraVars, resizeVars, pathVars, ipVars, waitVars, tokenVars,
                   listOutput, imgPc, imageRef>>

NextImageRef ==
    \/ CheckImage
    \/ PullImageRef
    \/ \E s \in SlotIds :
         \/ WorkerNewVMManager(s)
         \/ CloneFrom(s)
         \/ IterationEnds(s)

SpecImageRef == InitImageRef /\ [][NextImageRef]_vars

----
\* VMManager.resizeCachedImage (internal/setup/setup.go), called by PullImage
\* inside the initializer with the context of Run.  Every command of it is
\* made with exec.CommandContext(ctx, ...): under a cancelled ctx it is not
\* started and Run() or Start() returns the context's error.

\* The initializer is in PullImage, "tart pull" has succeeded, and
\* options.truncate_size is set.
InitResize ==
    /\ cfg = [n |-> 1, flag |-> FALSE, url |-> TRUE, user |-> FALSE]
    /\ runs = 1
    /\ runPc = "pull"
    /\ runErr = "nil"
    /\ ctxDone = FALSE
    /\ initOnce = TRUE
    /\ initErr = "nil"
    /\ initCount = 1
    /\ initRuns = 1
    /\ flagFile = FALSE
    /\ shutdownBy = "none"
    /\ slots = <<>>
    /\ wg = 0
    /\ exiting = 0
    /\ wpc = [s \in SlotIds |-> "idle"]
    /\ werr = [s \in SlotIds |-> "nil"]
    /\ created = [s \in SlotIds |-> FALSE]
    /\ cleanups = [s \in SlotIds |-> 0]
    /\ delRes = [s \in SlotIds |-> "none"]
    /\ jobEnd = [s \in SlotIds |-> "none"]
    /\ vmProc = [s \in SlotIds |-> "none"]
    /\ vms = {}
    /\ rzPc = "truncate"
    /\ rzErr = "nil"
    /\ probe \in BOOLEAN
    /\ probeProc = "none"
    /\ rzStopRan = FALSE
    /\ rzDeleteRan = FALSE
    /\ PathIdle
    /\ IpIdle
    /\ WaitIdle
    /\ TokenIdle
    /\ RefIdle
    /\ ExtraIdle

\* The outcomes of cmd.Run() / cmd.Start() of a command made with
\* exec.CommandContext(ctx, ...).
CommandRuns(cancelled) == IF cancelled THEN {FALSE} ELSE BOOLEAN

\* resizeCachedImage returns at `step` with error e: the deferred function,
\* registered after the clone, runs first.
RzReturn(step, e) ==
    /\ rzErr' = e
    /\ rzPc' = IF step \in {"truncate", "clone"} THEN "returned"
               ELSE "deferStop"

\* truncate -s <size> <disk.img>
RzTruncate ==
    /\ rzPc = "truncate"
    /\ \E ok \in CommandRuns(ctxDone) :
         IF ok
         THEN rzPc' = "clone" /\ UNCHANGED rzErr
         ELSE RzReturn("truncate", "truncate")
    /\ UNCHANGED <<loopVars, extraVars, pathVars, ipVars, waitVars, tokenVars, refVars,
                   probe, probeProc, rzStopRan, rzDeleteRan>>

\* tart clone <registry path> truncate_instance: fails when the name is
\* taken.
RzClone ==
    /\ rzPc = "clone"
    /\ \E ok \in CommandRuns(ctxDone) :
         /\ probe => ~ok
         /\ IF ok
            THEN /\ probe' = TRUE
                 /\ rzPc' = "boot"
                 /\ UNCHANGED rzErr
            ELSE /\ RzReturn("clone", "clone")
                 /\ UNCHANGED probe
    /\ UNCHANGED <<loopVars, extraVars, pathVars, ipVars, waitVars, tokenVars, refVars,
                   probeProc, rzStopRan, rzDeleteRan>>

\* bootCmd.Start() of "tart run --no-graphics truncate_instance"
RzBoot ==
    /\ rzPc = "boot"
    /\ \E ok \in CommandRuns(ctxDone) :
         IF ok
         THEN /\ probeProc' = "running"
              /\ rzPc' = "waitIP"
              /\ UNCHANGED rzErr
         ELSE /\ RzReturn("boot", "boot")
              /\ UNCHANGED probeProc
    /\ UNCHANGED <<loopVars, extraVars, pathVars, ipVars, waitVars, tokenVars, refVars,
                   probe, rzStopRan, rzDeleteRan>>

\* The "tart run" process of the probe VM is killed by its cancelled ctx.
ProbeKilled ==
    /\ probeProc = "running"
    /\ ctxDone
    /\ probeProc' = OnCancel(probeProc)
    /\ UNCHANGED <<loopVars, extraVars, pathVars, ipVars, waitVars, tokenVars, refVars,
                   rzPc, rzErr, probe, rzStopRan, rzDeleteRan>>

\* The "tart run" process of the probe VM exits by itself.
ProbeExit ==
    /\ probeProc = "running"
    /\ probeProc' = "exited"
    /\ UNCHANGED <<loopVars, extraVars, pathVars, ipVars, waitVars, tokenVars, refVars,
                   rzPc, rzErr, probe, rzStopRan, rzDeleteRan>>

\* v.waitForIP(ctx, tempInstance)
RzWaitForIP ==
    /\ rzPc = "waitIP"
    /\ \E res \in PollOutcomes(ctxDone, probeProc = "running") :
         IF res # "ok"
         THEN RzReturn("ip", "ip")
         ELSE rzPc' = "waitSSH" /\ UNCHANGED rzErr
    /\ UNCHANGED <<loopVars, extraVars, pathVars, ipVars, waitVars, tokenVars, refVars,
                   probe, probeProc, rzStopRan, rzDeleteRan>>

\* ssh.WaitForSSH(ctx, ip)
RzWaitForSSH ==
    /\ rzPc = "waitSSH"
    /\ \E res \in PollOutcomes(ctxDone, probeProc = "running") :
         IF res # "ok"
         THEN RzReturn("ssh", "ssh")
         ELSE rzPc' = "repair" /\ UNCHANGED rzErr
    /\ UNCHANGED <<loopVars, extraVars, pathVars, ipVars, waitVars, tokenVars, refVars,
                   probe, probeProc, rzStopRan, rzDeleteRan>>

\* The two ssh.Execute calls (diskutil repairDisk, resizeContainer) and the
\* "tart stop" after them; none of their errors is looked at.
RzRepairAndStop ==
    /\ rzPc = "repair"
    /\ \E stopped \in CommandRuns(ctxDone) :
         probeProc' = IF stopped /\ probeProc = "running"
                      THEN "exited" ELSE probeProc
    /\ rzPc' = "copy"
    /\ UNCHANGED <<loopVars, extraVars, pathVars, ipVars, waitVars, tokenVars, refVars,
                   rzErr, probe, rzStopRan, rzDeleteRan>>

\* os.Remove(diskPath) and cp -c <temp disk> <disk.img>
RzCopy ==
    /\ rzPc = "copy"
    /\ \E ok \in CommandRuns(ctxDone) :
         IF ok THEN RzReturn("copy", "nil") ELSE RzReturn("copy", "copy")
    /\ UNCHANGED <<loopVars, extraVars, pathVars, ipVars, waitVars, tokenVars, refVars,
                   probe, probeProc, rzStopRan, rzDeleteRan>>

\* The context the deferred function gives its two commands: ctx itself.
TeardownCtxDone(cancelled) == cancelled

\* The deferred exec.CommandContext(ctx, "tart", "stop", tempInstance).Run()
RzDeferStop ==
    /\ rzPc = "deferStop"
    /\ rzStopRan' = ~TeardownCtxDone(ctxDone)
    /\ \E ok \in CommandRuns(TeardownCtxDone(ctxDone)) :
         probeProc' = IF ok /\ probeProc = "running"
                      THEN "exited" ELSE probeProc
    /\ rzPc' = "deferDelete"
    /\ UNCHANGED <<loopVars, extraVars, pathVars, ipVars, waitVars, tokenVars, refVars,
                   rzErr, probe, rzDeleteRan>>

\* The deferred exec.CommandContext(ctx, "tart", "delete",
\* tempInstance).Run(); then resizeCachedImage returns.
RzDeferDelete ==
    /\ rzPc = "deferDelete"
    /\ rzDeleteRan' = ~TeardownCtxDone(ctxDone)
    /\ \E ok \in CommandRuns(TeardownCtxDone(ctxDone)) :
         probe' = IF ok THEN FALSE ELSE probe
    /\ rzPc' = "returned"
    /\ UNCHANGED <<loopVars, extraVars, pathVars, ipVars, waitVars, tokenVars, refVars,
                   rzErr, probeProc, rzStopRan>>

\* cancel() while the initializer is in resizeCachedImage.
RzCancel ==
    /\ rzPc # "returned"
    /\ Cancel

NextResize ==
    \/ RzTruncate
    \/ RzClone
    \/ RzBoot
    \/ ProbeKilled
    \/ ProbeExit
    \/ RzWaitForIP
    \/ RzWaitForSSH
    \/ RzRepairAndStop
    \/ RzCopy
    \/ RzDeferStop
    \/ RzDeferDelete
    \/ RzCancel

SpecResize == InitResize /\ [][NextResize]_vars

----
\* The sequential single-VM loop (unnamed/part_004): Run with one VMManager,
\* the image ensured in every cycle, and runOnce called inline.  Its runOnce
\* has the steps of the Worker's runOnce, so the Worker actions are used for
\* it; its instance name is built from the id generateRunID draws, so the
\* index of those actions stands for the run id here, and SlotIds for the
\* run ids explored.  The slot channel and the WaitGroup do not exist.

\* Dispatch cycles of one Run that reach the image check.
MaxCycles == 2

\* Run has checked the dependencies and made its managers.
InitSeq ==
    /\ cfg \in {c \in Configs : c.n = 1}
    /\ runs = 1
    /\ runPc = "login"
    /\ runErr = "nil"
    /\ ctxDone = FALSE
    /\ initOnce = FALSE
    /\ initErr = "nil"
    /\ initCount = 0
    /\ initRuns = 0
    /\ flagFile = FALSE
    /\ shutdownBy = "none"
    /\ slots = <<>>
    /\ wg = 0
    /\ exiting = 0
    /\ wpc = [s \in SlotIds |-> "idle"]
    /\ werr = [s \in SlotIds |-> "nil"]
    /\ created = [s \in SlotIds |-> FALSE]
    /\ cleanups = [s \in SlotIds |-> 0]
    /\ delRes = [s \in SlotIds |-> "none"]
    /\ jobEnd = [s \in SlotIds |-> "none"]
    /\ vmProc = [s \in SlotIds |-> "none"]
    /\ vms = {}
    /\ PureIdle

\* Run returns e; the deferred cancel() runs.
SeqReturn(e) ==
    /\ runPc' = "returned"
    /\ runErr' = e
    /\ ctxDone' = TRUE

\* if err := vm.Login(ctx); err != nil { return ... }
SeqLogin ==
    /\ runPc = "login"
    /\ \E ok \in BOOLEAN :
         /\ (~cfg.url \/ ~cfg.user) => ok
         /\ (cfg.url /\ cfg.user /\ ctxDone) => ~ok
         /\ IF ok
            THEN runPc' = "top" /\ UNCHANGED <<runErr, ctxDone>>
            ELSE SeqReturn("login")
    /\ UNCHANGED <<cfg, pureVars, runs, initOnce, initErr, initCount,
                   initRuns, shutdownBy, flagFile, poolVars, wpc, werr,
                   histVars, vmProc, vms>>

\* Top of the loop: select { case <-ctx.Done(): return nil; default: }
SeqTop ==
    /\ runPc = "top"
    /\ IF ctxDone
       THEN SeqReturn("nil")
       ELSE runPc' = "flag" /\ UNCHANGED <<runErr, ctxDone>>
    /\ UNCHANGED <<cfg, pureVars, runs, initOnce, initErr, initCount,
                   initRuns, shutdownBy, flagFile, poolVars, wpc, werr,
                   histVars, vmProc, vms>>

\* The shutdown-flag check: return nil when the file exists.
SeqCheckFlag ==
    /\ runPc = "flag"
    /\ IF cfg.flag /\ flagFile
       THEN SeqReturn("nil")
       ELSE runPc' = "imageExists" /\ UNCHANGED <<runErr, ctxDone>>
    /\ UNCHANGED <<cfg, pureVars, runs, initOnce, initErr, initCount,
                   initRuns, shutdownBy, flagFile, poolVars, wpc, werr,
                   histVars, vmProc, vms>>

\* runOnce is entered: runID := generateRunID(), a random id.
BeginRunOnce ==
    /\ runPc' = "runOnce"
    /\ \E id \in SlotIds :
         /\ wpc' = [wpc EXCEPT ![id] = "token"]
         /\ werr' = [werr EXCEPT ![id] = "nil"]
         /\ created' = [created EXCEPT ![id] = FALSE]
         /\ cleanups' = [cleanups EXCEPT ![id] = 0]
         /\ delRes' = [delRes EXCEPT ![id] = "none"]
         /\ jobEnd' = [jobEnd EXCEPT ![id] = "none"]
         /\ vmProc' = [vmProc EXCEPT ![id] = "none"]

\* Variant: a failed image check ends Run with the error.
OnImageCheckErrorReturn == "returned"

\* if err != nil { log.Error(...); time.Sleep(5 * time.Second); continue }
OnImageCheckError == "sleepCheck"

\* exists, err := vm.ImageExists(ctx) and the branches on it, in every
\* cycle.
SeqImageExists ==
    /\ runPc = "imageExists"
    /\ initRuns < MaxCycles
    /\ initRuns' = initRuns + 1
    /\ \E res \in {"err", "present", "absent"} :
         /\ ctxDone => res = "err"
         /\ CASE res = "err" ->
                   /\ runPc' = OnImageCheckError
                   /\ runErr' = IF OnImageCheckError = "returned"
                                THEN "check" ELSE runErr
                   /\ UNCHANGED <<ctxDone, wpc, werr, histVars, vmProc>>
              [] res = "present" ->
                   /\ BeginRunOnce
                   /\ UNCHANGED <<runErr, ctxDone>>
              [] res = "absent" /\ ~cfg.url ->
                   /\ SeqReturn("nourl")
                   /\ UNCHANGED <<wpc, werr, histVars, vmProc>>
              [] OTHER ->
                   /\ runPc' = "pull"
                   /\ UNCHANGED <<runErr, ctxDone, wpc, werr, histVars,
                                  vmProc>>
    /\ UNCHANGED <<cfg, pureVars, runs, initOnce, initErr, initCount,
                   shutdownBy, flagFile, poolVars, vms>>

\* if err := vm.PullImage(ctx); err != nil { log.Error(...);
\* time.Sleep(30 * time.Second); continue }
SeqPullImage ==
    /\ runPc = "pull"
    /\ \E ok \in BOOLEAN :
         /\ ctxDone => ~ok
         /\ IF ok
            THEN BeginRunOnce
            ELSE /\ runPc' = "sleepPull"
                 /\ UNCHANGED <<wpc, werr, histVars, vmProc>>
    /\ UNCHANGED <<cfg, pureVars, runs, runErr, initOnce, initErr, initCount,
                   initRuns, shutdownBy, ctxDone, flagFile, poolVars, vms>>

\* One of the three time.Sleep calls is over: continue with the next cycle.
SeqSleep ==
    /\ runPc \in {"sleepCheck", "sleepPull", "sleepIter"}
    /\ runPc' = "top"
    /\ UNCHANGED <<cfg, pureVars, runs, runErr, initOnce, initErr, initCount,
                   initRuns, shutdownBy, ctxDone, flagFile, poolVars, wpc,
                   werr, histVars, vmProc, vms>>

\* A step of the inline runOnce with run id `id`.
SeqRunOnce(id) ==
    /\ runPc = "runOnce"
    /\ \/ GetRegistrationToken(id)
       \/ Clone(id)
       \/ Start(id)
       \/ VmKilled(id)
       \/ VmExit(id)
       \/ WaitForIP(id)
       \/ WaitForSSH(id)
       \/ ConfigureRunner(id)
       \/ RunRunner(id)
       \/ Stop(id)
       \/ WaitVM(id)
       \/ CleanupStop(id)
       \/ CleanupDelete(id)

\* runOnce has returned: if err != nil { if ctx.Err() != nil { return nil };
\* log.Error(...); time.Sleep(10 * time.Second) }
SeqAfterRunOnce(id) ==
    /\ runPc = "runOnce"
    /\ wpc[id] = "ret"
    /\ IF werr[id] # "nil" /\ ctxDone
       THEN SeqReturn("nil")
       ELSE /\ runPc' = IF werr[id] # "nil" THEN "sleepIter" ELSE "top"
            /\ UNCHANGED <<runErr, ctxDone>>
    /\ wpc' = [wpc EXCEPT ![id] = "idle"]
    /\ werr' = [werr EXCEPT ![id] = "nil"]
    /\ created' = [created EXCEPT ![id] = FALSE]
    /\ cleanups' = [cleanups EXCEPT ![id] = 0]
    /\ delRes' = [delRes EXCEPT ![id] = "none"]
    /\ jobEnd' = [jobEnd EXCEPT ![id] = "none"]
    /\ UNCHANGED <<cfg, pureVars, runs, initOnce, initErr, initCount,
                   initRuns, shutdownBy, flagFile, poolVars, vmProc, vms>>

NextSeq ==
    \/ SeqLogin
    \/ SeqTop
    \/ SeqCheckFlag
    \/ SeqImageExists
    \/ SeqPullImage
    \/ SeqSleep
    \/ Cancel
    \/ CreateFlag
    \/ \E id \in SlotIds :
         \/ SeqRunOnce(id)
         \/ SeqAfterRunOnce(id)

SpecSeq == InitSeq /\ [][NextSeq]_vars

----
\* The log tailer: monitor.LogTailer (unnamed/part_003)

\* Longest file explored, in bytes.
MaxFileLen == 3
\* Bytes the writer appends after Start.
MaxWritten == 4
\* Polls are followed while fewer lines than this have been forwarded.
MaxForwarded == 3

\* The line terminator.
NL == "\n"

\* The bytes a writer puts into the log file.
Chars == {"a", "b", NL}

\* The file when Start is called: empty, or one line of an earlier run.
InitialFiles == {<<>>, <<"a", NL>>}

\* bufio.Scanner with the default split function (ScanLines) over `data`:
\* each line without its terminator, and at the end of the data a last
\* piece that has no terminator, if it is not empty. `cur` is the line
\* collected so far.
RECURSIVE ScanLines(_, _)
ScanLines(data, cur) ==
    IF data = <<>>
    THEN IF cur = <<>> THEN <<>> ELSE <<cur>>
    ELSE IF Head(data) = NL
         THEN <<cur>> \o ScanLines(Tail(data), <<>>)
         ELSE ScanLines(Tail(data), Append(cur, Head(data)))

\* if line == "" { continue }
NonEmptyLines(lines) == SelectSeq(lines, LAMBDA l : l # <<>>)

\* The bytes of file f from position `from` to its end.
FromOffset(f, from) == SubSeq(f, from + 1, Len(f))

\* NewLogTailer has built the tailer; Start has not been called.
InitTail ==
    /\ cfg = [n |-> 1, flag |-> FALSE, url |-> FALSE, user |-> FALSE]
    /\ IdleInit
    /\ PathIdle
    /\ IpIdle
    /\ WaitIdle
    /\ TokenIdle
    /\ RefIdle
    /\ ResizeIdle
    /\ DoneIdle
    /\ RegIdle
    /\ tailPc = "off"
    /\ logFile \in InitialFiles
    /\ offset = 0
    /\ forwarded = <<>>
    /\ appended = <<>>
    /\ truncated = FALSE

\* Start up to the ticker loop: seekToEnd sets the offset to the size of the
\* file.
TailStart ==
    /\ tailPc = "off"
    /\ tailPc' = "polling"
    /\ offset' = Len(logFile)
    /\ UNCHANGED <<loopVars, pathVars, ipVars, waitVars, tokenVars, refVars,
                   resizeVars, doneVars, regVars, logFile, forwarded,
                   appended, truncated>>

\* The writer of the log appends one byte; a line is written in one or in
\* several such steps.
WriterAppend ==
    /\ tailPc = "polling"
    /\ Len(logFile) < MaxFileLen
    /\ Len(appended) < MaxWritten
    /\ \E c \in Chars :
         /\ logFile' = Append(logFile, c)
         /\ appended' = Append(appended, c)
    /\ UNCHANGED <<loopVars, pathVars, ipVars, waitVars, tokenVars, refVars,
                   resizeVars, doneVars, regVars, tailPc, offset, forwarded,
                   truncated>>

\* The file is truncated, or rotated and replaced by an empty one.
WriterTruncate ==
    /\ tailPc = "polling"
    /\ logFile # <<>>
    /\ logFile' = <<>>
    /\ truncated' = TRUE
    /\ UNCHANGED <<loopVars, pathVars, ipVars, waitVars, tokenVars, refVars,
                   resizeVars, doneVars, regVars, tailPc, offset, forwarded,
                   appended>>

\* The scanner loop of checkAndReadNewLines over the bytes after the offset:
\* the lines it yields, and the bytes consumed (file.Seek(0, io.SeekCurrent)
\* after the scanner has read to the end of the file).
Scanned(data) ==
    [lines |-> ScanLines(data, <<>>), consumed |-> Len(data)]

\* One tick: checkAndReadNewLines. A smaller file resets the offset to 0; an
\* unchanged size returns; otherwise the bytes after the offset are scanned,
\* every non-empty line is handed to CaptureLogEvent, and the offset moves
\* to the position reached. When the scanner ends with an error after k
\* lines, the procedure returns without moving the offset.
TailPoll ==
    /\ tailPc = "polling"
    /\ Len(forwarded) < MaxForwarded
    /\ LET from == IF Len(logFile) < offset THEN 0 ELSE offset
           sc == Scanned(FromOffset(logFile, from))
       IN  IF Len(logFile) = from
           THEN /\ offset' = from
                /\ UNCHANGED forwarded
           ELSE \E readOk \in BOOLEAN :
                  IF readOk
                  THEN /\ forwarded' = forwarded \o NonEmptyLines(sc.lines)
                       /\ offset' = from + sc.consumed
                  ELSE \E k \in 0..(Len(sc.lines) - 1) :
                         /\ forwarded' =
                              forwarded
                                \o NonEmptyLines(SubSeq(sc.lines, 1, k))
                         /\ offset' = from
    /\ UNCHANGED <<loopVars, pathVars, ipVars, waitVars, tokenVars, refVars,
                   resizeVars, doneVars, regVars, tailPc, logFile, appended,
                   truncated>>

NextTail ==
    \/ TailStart
    \/ WriterAppend
    \/ WriterTruncate
    \/ TailPoll

SpecTail == InitTail /\ [][NextTail]_vars

----
\* The goroutine that waits for the VM process: runOnce, vmDone

\* Slot of the Worker followed.
VdSlot == 0

\* make(chan error, 1)
VmDoneCapacity == 1

\* The variables of the other procedures modelled on their own.
notDoneVars == <<pathVars, ipVars, waitVars, tokenVars, refVars, resizeVars,
                 tailVars, regVars>>

\* One Worker of a one-slot loop has fetched the token and cloned its
\* instance; it is about to call vm.Start.
InitVmDone ==
    /\ cfg = [n |-> 1, flag |-> FALSE, url |-> FALSE, user |-> FALSE]
    /\ runs = 1
    /\ runPc = "acquire"
    /\ runErr = "nil"
    /\ ctxDone = FALSE
    /\ initOnce = TRUE
    /\ initErr = "nil"
    /\ initCount = 1
    /\ initRuns = 1
    /\ flagFile = FALSE
    /\ shutdownBy = "none"
    /\ slots = <<>>
    /\ wg = 1
    /\ exiting = 0
    /\ wpc = [s \in SlotIds |-> IF s = VdSlot THEN "start" ELSE "idle"]
    /\ werr = [s \in SlotIds |-> "nil"]
    /\ created = [s \in SlotIds |-> s = VdSlot]
    /\ cleanups = [s \in SlotIds |-> 0]
    /\ delRes = [s \in SlotIds |-> "none"]
    /\ jobEnd = [s \in SlotIds |-> "none"]
    /\ vmProc = [s \in SlotIds |-> "none"]
    /\ vms = {InstanceName(VdSlot)}
    /\ PathIdle
    /\ IpIdle
    /\ WaitIdle
    /\ TokenIdle
    /\ RefIdle
    /\ ResizeIdle
    /\ TailIdle
    /\ RegIdle
    /\ DoneIdle

\* vm.Start(ctx, instanceName), and on success vmDone := make(chan error, 1)
\* and the go statement.
VdStart ==
    /\ wpc[VdSlot] = "start"
    /\ \E ok \in CommandRuns(ctxDone) :
         IF ok
         THEN /\ vmProc' = [vmProc EXCEPT ![VdSlot] = "running"]
              /\ Goto(VdSlot, "waitIP")
              /\ waiterPc' = "wait"
              /\ vmDone' = <<>>
         ELSE /\ Return(VdSlot, "start", "err")
              /\ UNCHANGED <<vmProc, doneVars>>
    /\ UNCHANGED <<cfg, runVars, ctxDone, flagFile, poolVars, created, delRes,
                   jobEnd, vms, notDoneVars>>

\* vmCmd.Wait() returns in the goroutine: the process has exited or has
\* been killed.
WaiterReturns ==
    /\ waiterPc = "wait"
    /\ vmProc[VdSlot] \in {"exited", "killed"}
    /\ waiterPc' = "send"
    /\ UNCHANGED <<loopVars, notDoneVars, vmDone>>

\* Variant: the channel is made without a buffer and nobody receives.
VmDoneHasRoomUnbuffered(len) == FALSE

\* A send on a buffered channel proceeds when the buffer is not full.
VmDoneHasRoom(len) == len < VmDoneCapacity

\* vmDone <- (the result of Wait); the goroutine then ends.
WaiterSend ==
    /\ waiterPc = "send"
    /\ VmDoneHasRoom(Len(vmDone))
    /\ vmDone' = Append(vmDone, "exit")
    /\ waiterPc' = "done"
    /\ UNCHANGED <<loopVars, notDoneVars>>

\* select { case <-vmDone: case <-time.After(30 * time.Second): }, then
\* "return nil": a buffered value is received, or the timer fires.
VdWaitVM ==
    /\ wpc[VdSlot] = "waitVM"
    /\ \/ /\ vmDone # <<>>
          /\ vmDone' = Tail(vmDone)
       \/ /\ VmWaitReady(vmProc[VdSlot])
          /\ UNCHANGED vmDone
    /\ Return(VdSlot, "done", "nil")
    /\ jobEnd' = [jobEnd EXCEPT ![VdSlot] = "none"]
    /\ UNCHANGED <<cfg, runVars, ctxDone, flagFile, poolVars, created, delRes,
                   vmProc, vms, notDoneVars, waiterPc>>

\* The steps of runOnce that do not touch vmDone, and the rest of the
\* Worker goroutine.
VdWorker ==
    \/ WaitForIP(VdSlot)
    \/ WaitForSSH(VdSlot)
    \/ ConfigureRunner(VdSlot)
    \/ RunRunner(VdSlot)
    \/ Stop(VdSlot)
    \/ CleanupStop(VdSlot)
    \/ CleanupDelete(VdSlot)
    \/ WorkerRet(VdSlot)
    \/ Sleep(VdSlot)
    \/ ReleaseSlot(VdSlot)
    \/ WgDone

NextVmDone ==
    \/ VdStart
    \/ VdWorker
    \/ VdWaitVM
    \/ WaiterReturns
    \/ WaiterSend
    \/ VmExit(VdSlot)
    \/ VmKilled(VdSlot)
    \/ Cancel

SpecVmDone == InitVmDone /\ [][NextVmDone]_vars

----
\* VMManager.ImageExists on image names with and without a registry host

\* registry_url "", "g" and "g:5" (a host with a port); image names "r",
\* "r:l", "g/r:l", "g:5/r" and "g:5/r:l".
PresenceRegistries ==
    [url : {<<>>, <<"g">>, <<"g", ":", "5">>},
     imageName : {<<"r">>, <<"r", ":", "l">>, <<"g", "/", "r", ":", "l">>,
                  <<"g", ":", "5", "/", "r">>,
                  <<"g", ":", "5", "/", "r", ":", "l">>}]

\* Names "tart list" may print: the local VMs "r" and "x", the cached images
\* "r:l", "g/r:l", "g:5/r:l", and another image "g:5/x" of the registry.
PresenceListed ==
    {<<"r">>, <<"x">>, <<"r", ":", "l">>, <<"g", "/", "r", ":", "l">>,
     <<"g", ":", "5", "/", "r", ":", "l">>, <<"g", ":", "5", "/", "x">>}

\* The initializer is about to call vm.ImageExists(ctx).
InitImageExists ==
    /\ registry \in PresenceRegistries
    /\ registryPath = <<>>
    /\ listOutput \in SUBSET PresenceListed
    /\ imgPc = "exists"
    /\ imageRef = << <<>> >>
    /\ mgr = [s \in SlotIds |-> 0]
    /\ refPc = [s \in SlotIds |-> "off"]
    /\ cloneRef = [s \in SlotIds |-> <<>>]
    /\ IpIdle
    /\ WaitIdle
    /\ TokenIdle
    /\ ResizeIdle
    /\ ExtraIdle
    /\ cfg = [n |-> MaxConcurrentRunners, flag |-> FALSE,
              url |-> registry.url # <<>>, user |-> FALSE]
    /\ IdleInit

\* The call of vm.ImageExists and the branch on its result.
NextImageExists == CheckImage

SpecImageExists == InitImageExists /\ [][NextImageExists]_vars

----
\* The runner loop with a concurrency bound of 0

\* Configurations in which options.max_concurrent_runners is 0: Validate
\* does not look at the field.
ZeroConfigs ==
    {c \in [n : {0}, flag : BOOLEAN, url : BOOLEAN, user : BOOLEAN] :
       c.user => c.url}

InitZero ==
    /\ cfg \in ZeroConfigs
    /\ IdleInit
    /\ PureIdle

\* The operator creates the shutdown-flag file once the dispatch loop has
\* started.
CreateFlagInLoop ==
    /\ runPc \in {"top", "flag", "acquire"}
    /\ CreateFlag

\* Run with an unbuffered, empty slot channel: no step of Next that needs a
\* slot or a Worker can be taken.
NextZero ==
    \/ StartRun
    \/ Cancel
    \/ CreateFlagInLoop
    \/ InitImage
    \/ Login
    \/ ImageExists
    \/ PullImage
    \/ InitDone
    \/ LoopTop
    \/ CheckFlag
    \/ AcquireCancelled
    \/ Drain

SpecZero == InitZero /\ [][NextZero]_vars

----
\* The registrations the Workers make: ssh.ConfigureRunner

\* The variables of the other procedures modelled on their own.
notRegVars == <<pathVars, ipVars, waitVars, tokenVars, refVars, resizeVars,
                tailVars, doneVars>>

\* The image is initialized and the slot channel is filled: Run is at the
\* top of its dispatch loop.
InitRegister ==
    /\ cfg = [n |-> MaxConcurrentRunners, flag |-> FALSE, url |-> FALSE,
              user |-> FALSE]
    /\ runs = 1
    /\ runPc = "top"
    /\ runErr = "nil"
    /\ ctxDone = FALSE
    /\ initOnce = TRUE
    /\ initErr = "nil"
    /\ initCount = 1
    /\ initRuns = 1
    /\ flagFile = FALSE
    /\ shutdownBy = "none"
    /\ slots = InitialSlots(cfg.n)
    /\ wg = 0
    /\ exiting = 0
    /\ wpc = [s \in SlotIds |-> "idle"]
    /\ werr = [s \in SlotIds |-> "nil"]
    /\ created = [s \in SlotIds |-> FALSE]
    /\ cleanups = [s \in SlotIds |-> 0]
    /\ delRes = [s \in SlotIds |-> "none"]
    /\ jobEnd = [s \in SlotIds |-> "none"]
    /\ vmProc = [s \in SlotIds |-> "none"]
    /\ vms = {}
    /\ PathIdle
    /\ IpIdle
    /\ WaitIdle
    /\ TokenIdle
    /\ RefIdle
    /\ ResizeIdle
    /\ TailIdle
    /\ DoneIdle
    /\ RegIdle

\* Variant: every Worker registers under the runner name of the
\* configuration.
RegistrationNameOfConfig(s) == <<RunnerName>>

\* The name argument of ssh.ConfigureRunner(ctx, ip, token, instanceName).
RegistrationName(s) == InstanceName(s)

\* The coordinator after a registration under `name` by the Worker of slot
\* s: an earlier registration under the same name is replaced.
Registered(r, name, s) == {e \in r : e[1] # name} \cup {<<name, s>>}

\* ssh.ConfigureRunner(ctx, ip, token, instanceName): on success the runner
\* is registered under the name passed.
RegConfigure(s) ==
    /\ wpc[s] = "configure"
    /\ \E ok \in BOOLEAN :
         /\ ok => (~ctxDone /\ vmProc[s] = "running")
         /\ IF ok
            THEN /\ Goto(s, "job")
                 /\ regs' = Registered(regs, RegistrationName(s), s)
            ELSE /\ Return(s, "configure", "err")
                 /\ UNCHANGED regs
    /\ UNCHANGED <<cfg, runVars, ctxDone, flagFile, poolVars, created, delRes,
                   jobEnd, vmProc, vms, notRegVars>>

\* The Worker goroutine, with the registration followed.
RegWorker(s) ==
    \/ GetRegistrationToken(s)
    \/ Clone(s)
    \/ Start(s)
    \/ VmKilled(s)
    \/ VmExit(s)
    \/ WaitForIP(s)
    \/ WaitForSSH(s)
    \/ RegConfigure(s)
    \/ RunRunner(s)
    \/ Stop(s)
    \/ WaitVM(s)
    \/ CleanupStop(s)
    \/ CleanupDelete(s)
    \/ WorkerRet(s)
    \/ Sleep(s)
    \/ ReleaseSlot(s)

NextRegister ==
    \/ Cancel
    \/ LoopTop
    \/ CheckFlag
    \/ AcquireCancelled
    \/ AcquireSlot
    \/ Drain
    \/ WgDone
    \/ \E s \in SlotIds : RegWorker(s)

SpecRegister == InitRegister /\ [][NextRegister]_vars

----
\* Properties

Active(s) == wpc[s] # "idle"
InitPcs == {"initImage", "login", "imageExists", "pull", "initDone"}
NoWorkerYet ==
    /\ slots = <<>>
    /\ wg = 0
    /\ exiting = 0
    /\ vms = {}
    /\ \A s \in SlotIds : ~Active(s)
\* No Worker is admitted in this step.
NoSpawn == \A s \in SlotIds : ~Active(s) => ~Active(s)'
AllFinished == wg = 0 /\ exiting = 0 /\ \A s \in SlotIds : ~Active(s)

\* C1: at no time do more VM instances exist than the configured
\* concurrency bound N, whatever fails and however the steps interleave.
C1_AtMostNInstances == Cardinality(vms) <= cfg.n

\* C1 witness: N = 2 instances exist, one of them left behind by a failed
\* Delete, and the Worker of that slot is about to clone again.
C1_Witness ==
    /\ cfg.n = 2
    /\ Cardinality(vms) = 2
    /\ \E s \in SlotIds : wpc[s] = "clone" /\ InstanceName(s) \in vms

\* C2 as stated: every iteration, the ones whose token fetch failed
\* included, has invoked Cleanup exactly once when the slot is released.
C2_CleanupOnceEveryOutcome ==
    \A s \in SlotIds : wpc[s] = "release" => cleanups[s] = 1

\* C2 amended: an iteration whose token fetch succeeded has invoked Cleanup
\* exactly once, and that Cleanup has finished, when the slot is released; an
\* iteration whose token fetch failed has not invoked Cleanup.
C2_CleanupOnceAfterToken ==
    \A s \in SlotIds :
        /\ cleanups[s] <= 1
        /\ wpc[s] = "release" =>
             IF werr[s] = "token"
             THEN cleanups[s] = 0 /\ delRes[s] = "none"
             ELSE cleanups[s] = 1 /\ delRes[s] # "none"

\* C2 witness: a Worker that failed under cancellation is about to return
\* its slot after its one Cleanup.
C2_Witness ==
    \E s \in SlotIds :
        wpc[s] = "release" /\ werr[s] = "err" /\ ctxDone /\ cleanups[s] = 1

\* C3 as stated: when a Worker returns its slot, the instance it created in
\* this iteration no longer exists.
C3_CreatedInstanceDeleted ==
    \A s \in SlotIds :
        (wpc[s] = "release" /\ created[s]) => InstanceName(s) \notin vms

\* C3 amended: when a Worker returns its slot, Cleanup has attempted the
\* Delete of the instance it created, and the instance still exists exactly
\* if that one Delete failed.
C3_CreatedInstanceDeleteAttempted ==
    \A s \in SlotIds :
        (wpc[s] = "release" /\ created[s]) =>
            \/ delRes[s] = "ok" /\ InstanceName(s) \notin vms
            \/ delRes[s] = "fail" /\ InstanceName(s) \in vms

\* C3 witness: a Worker that created its instance and failed later returns
\* its slot with the instance deleted.
C3_Witness ==
    \E s \in SlotIds :
        /\ wpc[s] = "release" /\ created[s] /\ werr[s] = "err"
        /\ delRes[s] = "ok" /\ InstanceName(s) \notin vms

\* C4: Run has returned only if every Worker it spawned has finished,
\* cleanup, backoff sleep, slot return and wg.Done included.
C4_ReturnAfterWorkers == runPc = "returned" => AllFinished

\* C4 witness: Run has returned from a drain after Workers had run.
C4_Witness ==
    /\ runPc = "returned"
    /\ shutdownBy = "ctx"
    /\ vms # {}

C6_NoSpawnAfterCancel == [][ctxDone => (NoSpawn /\ Len(slots') >= Len(slots))]_vars

\* C7 as stated: cancellation terminates neither the booted VM process nor a
\* remote command that is executing.
C7_NothingKilled ==
    \A s \in SlotIds : vmProc[s] # "killed" /\ jobEnd[s] # "killed"

\* C7 amended: a process is killed only by cancellation; a poll point left
\* under cancellation returns an error and goes to cleanup; RunJob ended
\* under cancellation goes on to the graceful Stop and so to cleanup.
C7_CancelEndsStepsThenCleanup ==
    [][\A s \in SlotIds :
          /\ (vmProc'[s] = "killed" /\ vmProc[s] # "killed") => ctxDone
          /\ (jobEnd'[s] = "killed" /\ jobEnd[s] # "killed") => ctxDone
          /\ (ctxDone /\ wpc[s] \in {"waitIP", "waitSSH"} /\ wpc'[s] # wpc[s])
                => (wpc'[s] = "cleanupStop" /\ werr'[s] = "err")
          /\ (ctxDone /\ wpc[s] = "job" /\ wpc'[s] # wpc[s])
                => (wpc'[s] = "stop" /\ werr'[s] = "nil")]_vars

\* C7 witness: a Worker whose remote command was killed by cancellation has
\* gone on towards cleanup.
C7_Witness ==
    \E s \in SlotIds :
        ctxDone /\ jobEnd[s] = "killed" /\ vmProc[s] = "killed" /\ wpc[s] = "waitVM"

C9_InitBeforeSlots ==
    /\ runPc \in InitPcs => NoWorkerYet
    /\ (runPc = "returned" /\ initErr # "nil") =>
          (runErr = initErr /\ NoWorkerYet)

\* C9 witness: Run has returned the error of a failed pull.
C9_Witness == runPc = "returned" /\ initErr = "pull" /\ runErr = "pull"

\* C10 as stated: the initialization body runs once per process, however
\* often the loop is started.
C10_InitOncePerProcess == initCount <= 1

\* C10 amended: the initialization body runs once per invocation of Run
\* that passes the dependency check, however many Workers and dispatch
\* cycles follow; a process that starts the loop again runs it again.
C10_InitOncePerRun ==
    /\ initRuns <= 1
    /\ initCount <= runs
    /\ runPc \in {"top", "flag", "acquire", "drain"} => initRuns = 1

\* C10 witness: the loop was started a second time and has dispatched a
\* Worker.
C10_Witness ==
    /\ runs = 2
    /\ initCount = 2
    /\ initRuns = 1
    /\ \E s \in SlotIds : Active(s)

\* The slot ids of the pool and the slot ids held by Workers.
Free == {slots[i] : i \in 1..Len(slots)}
Held == {s \in SlotIds : Active(s)}
PoolExists ==
    \/ runPc \in {"top", "flag", "acquire", "drain"}
    \/ runPc = "returned" /\ runErr = "nil"

\* C11: once the pool is filled, the free slots and the slots held by
\* Workers are the ids 0..N-1, each once (so no id is held twice or both free
\* and held); a Worker that finishes sends exactly its own slot id, and the
\* channel has room for it, so the send never blocks.
C11_SlotConservation ==
    /\ [](PoolExists =>
            /\ Len(slots) + Cardinality(Held) = cfg.n
            /\ Free \cup Held = 0..(cfg.n - 1))
    /\ [](\A s \in SlotIds : wpc[s] = "release" => Len(slots) < cfg.n)
    /\ [][\A s \in SlotIds :
            (wpc[s] = "release" /\ wpc'[s] # "release") =>
                (slots' = Append(slots, s) /\ ~Active(s)')]_vars

\* C11 witness: with two slots, slot 0 has been borrowed and returned while
\* the Worker of slot 1 still holds its slot.
C11_Witness ==
    /\ cfg.n = 2
    /\ slots = <<0>>
    /\ exiting = 1
    /\ wpc[1] \notin {"idle", "release"}

FailingSteps == {"clone", "start", "waitIP", "waitSSH", "configure"}

\* C12 as stated: whenever a Worker is in its backoff, whichever step
\* failed (token fetch included), the cleanup of its instance has completed
\* and the instance is gone.
C12_BackoffAfterCleanup ==
    \A s \in SlotIds :
        wpc[s] = "sleep" =>
            (cleanups[s] = 1 /\ delRes[s] # "none" /\ InstanceName(s) \notin vms)

\* C12 amended: a step from clone to Configure that fails goes to Cleanup,
\* which attempts the stop and then the delete before runOnce returns; a
\* failed token fetch returns without Cleanup.  A backoff starts only after
\* runOnce has returned an error and ends only in the release of the slot;
\* the slot, once the pool is filled, becomes free only by that release.
C12_CleanupThenBackoffThenRelease ==
    /\ [](\A s \in SlotIds :
            wpc[s] \in {"ret", "sleep", "release"} =>
                /\ werr[s] = "err" => (cleanups[s] = 1 /\ delRes[s] # "none")
                /\ werr[s] = "token" => (cleanups[s] = 0 /\ delRes[s] = "none"))
    /\ [][\A s \in SlotIds :
            /\ (wpc[s] \in FailingSteps /\ werr'[s] = "err") =>
                   wpc'[s] = "cleanupStop"
            /\ (wpc[s] = "token" /\ werr'[s] = "token") => wpc'[s] = "ret"
            /\ (wpc[s] = "cleanupStop" /\ wpc'[s] # "cleanupStop") =>
                   (wpc'[s] = "cleanupDelete" /\ delRes'[s] = "none")
            /\ (wpc[s] = "cleanupDelete" /\ wpc'[s] # "cleanupDelete") =>
                   (wpc'[s] = "ret" /\ delRes'[s] # "none")
            /\ (wpc[s] # "sleep" /\ wpc'[s] = "sleep") =>
                   (wpc[s] = "ret" /\ werr[s] # "nil")
            /\ (wpc[s] = "sleep" /\ wpc'[s] # "sleep") => wpc'[s] = "release"
            /\ (wpc[s] # "release" /\ wpc'[s] = "release") =>
                   wpc[s] \in {"ret", "sleep"}
            /\ (PoolExists /\ s \in Free' /\ s \notin Free) =>
                   wpc[s] = "release"]_vars

\* C12 witness: a Worker whose instance was created and whose later step
\* failed without cancellation is in its backoff, the instance stopped and
\* deleted, the slot not yet free.
C12_Witness ==
    \E s \in SlotIds :
        /\ wpc[s] = "sleep" /\ ~ctxDone
        /\ created[s] /\ werr[s] = "err"
        /\ delRes[s] = "ok" /\ InstanceName(s) \notin vms
        /\ s \notin Free

\* C13 as stated: a failure that cancellation cannot have caused, such as a
\* failed token fetch (the call takes no context), is always followed by the
\* backoff, also when cancellation fires before the Worker handles the error.
C13_OtherCauseAlwaysBacksOff ==
    [][\A s \in SlotIds :
          (wpc[s] = "ret" /\ werr[s] = "token" /\ wpc'[s] # "ret") =>
              wpc'[s] = "sleep"]_vars

\* C13 amended: when runOnce has returned, the Worker backs off exactly if
\* the iteration failed and the context is not cancelled at that moment; so
\* no backoff starts once cancellation has fired, whatever made the
\* iteration fail, and a successful iteration never backs off.
C13_BackoffUnlessCancelledAtReturn ==
    /\ [](\A s \in SlotIds : wpc[s] = "sleep" => werr[s] # "nil")
    /\ [][\A s \in SlotIds :
            /\ (wpc[s] = "ret" /\ wpc'[s] # "ret") =>
                  IF werr[s] # "nil" /\ ~ctxDone
                  THEN wpc'[s] = "sleep"
                  ELSE wpc'[s] = "release"
            /\ (wpc[s] # "sleep" /\ wpc'[s] = "sleep") => ~ctxDone]_vars

\* C13 witness: a Worker whose token fetch failed is returning its slot
\* with the context cancelled, while the Dispatcher has not yet seen the
\* cancellation.
C13_Witness ==
    \E s \in SlotIds :
        /\ wpc[s] = "release" /\ werr[s] = "token" /\ ctxDone
        /\ runPc \in {"top", "flag", "acquire"}

LoopPcs == {"top", "flag", "acquire", "drain"}
StartupErrors == {"deps", "login", "check", "nourl", "pull"}

\* C14: a step in which a Worker iteration fails, backs off or ends leaves
\* the Dispatcher where it is, uncancelled and with nothing returned; the
\* Dispatcher leaves its loop only through the drain, which a cancelled
\* context or the shutdown-flag file starts; Run returns a non-nil error
\* only from the dependency check or the image initialization, before any
\* Worker, and nil after every drain.
C14_WorkerFailureNotFatal ==
    /\ [](runPc = "returned" =>
            IF shutdownBy = "none"
            THEN runErr \in StartupErrors /\ NoWorkerYet
            ELSE runErr = "nil")
    /\ [][/\ (\E s \in SlotIds :
                  \/ werr'[s] # "nil" /\ werr[s] = "nil"
                  \/ werr[s] # "nil" /\ wpc'[s] # wpc[s]) =>
                UNCHANGED <<runPc, runErr, shutdownBy, ctxDone>>
          /\ (runPc \in LoopPcs /\ runPc' \notin LoopPcs) =>
                (runPc = "drain" /\ runPc' = "returned" /\ runErr' = "nil")
          /\ (runPc # "drain" /\ runPc' = "drain") =>
                (ctxDone \/ (cfg.flag /\ flagFile))]_vars

\* C14 witness: with two slots, the Dispatcher has just admitted a Worker
\* while the Worker of the other slot is in the backoff of a failed
\* iteration, and nothing asks for a shutdown.
C14_Witness ==
    /\ cfg.n = 2
    /\ runPc = "top" /\ runErr = "nil"
    /\ ~ctxDone /\ ~flagFile
    /\ \E s, t \in SlotIds :
          wpc[s] = "sleep" /\ werr[s] = "err" /\ wpc[t] = "token"

\* C15: however the RunJob command ends, a non-zero exit included, the
\* iteration goes on to the graceful Stop, then to the wait for the VM
\* process, which always ends, then to Cleanup (stop, delete) with the result
\* nil, and from the return of runOnce directly to the release of the slot,
\* without backoff.
C15_JobExitIsCompletion ==
    /\ [](\A s \in SlotIds :
            /\ jobEnd[s] # "none" => (wpc[s] \in {"stop", "waitVM"} /\ werr[s] = "nil")
            /\ wpc[s] = "waitVM" => ENABLED WaitVM(s))
    /\ [][\A s \in SlotIds :
            /\ (wpc[s] = "job" /\ wpc'[s] # "job") =>
                  (wpc'[s] = "stop" /\ jobEnd'[s] # "none")
            /\ (wpc[s] = "stop" /\ wpc'[s] # "stop") => wpc'[s] = "waitVM"
            /\ (wpc[s] = "waitVM" /\ wpc'[s] # "waitVM") =>
                  (wpc'[s] = "cleanupStop" /\ werr'[s] = "nil" /\ cleanups'[s] = 1)
            /\ (wpc[s] \in {"cleanupStop", "cleanupDelete", "ret"}
                    /\ werr[s] = "nil" /\ wpc'[s] # wpc[s]) =>
                  /\ werr'[s] = "nil"
                  /\ wpc'[s] = CASE wpc[s] = "cleanupStop" -> "cleanupDelete"
                                  [] wpc[s] = "cleanupDelete" -> "ret"
                                  [] wpc[s] = "ret" -> "release"]_vars

\* C15 witness: the RunJob command of a Worker has exited non-zero without
\* cancellation, the graceful Stop has ended the VM, and the Worker is at the
\* wait for the VM process.
C15_Witness ==
    \E s \in SlotIds :
        /\ wpc[s] = "waitVM" /\ jobEnd[s] = "exitErr"
        /\ vmProc[s] = "exited" /\ werr[s] = "nil" /\ ~ctxDone

\* The step runOnce starts after `step` has not made it return.
NextStep(step) ==
    CASE step = "token" -> "clone"
      [] step = "clone" -> "start"
      [] step = "start" -> "waitIP"
      [] step = "waitIP" -> "waitSSH"
      [] step = "waitSSH" -> "configure"
      [] step = "configure" -> "job"
      [] step = "job" -> "stop"
      [] step = "stop" -> "waitVM"
Steps == {"token", "clone", "start", "waitIP", "waitSSH", "configure", "job",
          "stop"}
AfterCleanup == {"ret", "sleep", "release"}

\* C16: a Worker leaves a step either for the next step of the list, and
\* then the step has succeeded (the instance exists after clone, the VM
\* process runs after start, the waits and Configure ended uncancelled with
\* the VM running; RunJob and Stop go on whatever their result), or with an
\* error for Cleanup, or without Cleanup when the token fetch failed; the
\* wait for the VM process leads to Cleanup; Cleanup is stop then delete; the
\* instance is created only by the clone step and the VM process only by the
\* start step; after Cleanup the iteration touches neither.
C16_StepOrder ==
    [][\A s \in SlotIds :
          /\ (wpc[s] \in Steps /\ wpc'[s] # wpc[s]) =>
                \/ /\ wpc'[s] = NextStep(wpc[s])
                   /\ werr'[s] = "nil"
                   /\ wpc[s] = "clone" => (created'[s] /\ InstanceName(s) \in vms')
                   /\ wpc[s] = "start" => vmProc'[s] = "running"
                   /\ wpc[s] \in {"waitIP", "waitSSH", "configure"} =>
                         (~ctxDone /\ vmProc[s] = "running")
                \/ /\ wpc[s] \in FailingSteps
                   /\ wpc'[s] = "cleanupStop" /\ werr'[s] = "err"
                \/ /\ wpc[s] = "token"
                   /\ wpc'[s] = "ret" /\ werr'[s] = "token"
          /\ (wpc[s] = "waitVM" /\ wpc'[s] # "waitVM") => wpc'[s] = "cleanupStop"
          /\ (wpc[s] = "cleanupStop" /\ wpc'[s] # "cleanupStop") =>
                wpc'[s] = "cleanupDelete"
          /\ (wpc[s] = "cleanupDelete" /\ wpc'[s] # "cleanupDelete") =>
                wpc'[s] = "ret"
          /\ (InstanceName(s) \in vms' /\ InstanceName(s) \notin vms) =>
                wpc[s] = "clone"
          /\ (vmProc'[s] = "running" /\ vmProc[s] # "running") => wpc[s] = "start"
          /\ wpc[s] \in AfterCleanup =>
                /\ wpc'[s] \in AfterCleanup \cup {"idle"}
                /\ vmProc'[s] = vmProc[s]
                /\ InstanceName(s) \in vms' <=> InstanceName(s) \in vms]_vars

\* C16 witness: a Worker one of whose steps after start failed, the VM
\* running and nothing cancelled, is in Cleanup, RunJob and the graceful
\* Stop skipped.
C16_Witness ==
    \E s \in SlotIds :
        /\ wpc[s] = "cleanupStop" /\ werr[s] = "err"
        /\ vmProc[s] = "running" /\ ~ctxDone
        /\ jobEnd[s] = "none"

\* C17: with the iteration's context cancelled, Cleanup still runs its stop
\* and then its delete, and both can still take effect: the stop can end a
\* VM process that runs and the delete can remove an instance that exists.
C17_TeardownDespiteCancel ==
    /\ [](\A s \in SlotIds : ctxDone =>
            /\ (wpc[s] = "cleanupStop" /\ vmProc[s] = "running") =>
                  ENABLED (CleanupStop(s) /\ vmProc'[s] = "exited")
            /\ (wpc[s] = "cleanupDelete" /\ InstanceName(s) \in vms) =>
                  ENABLED (CleanupDelete(s) /\ InstanceName(s) \notin vms'))
    /\ [][\A s \in SlotIds : ctxDone =>
            /\ (wpc[s] = "cleanupStop" /\ wpc'[s] # "cleanupStop") =>
                  wpc'[s] = "cleanupDelete"
            /\ (wpc[s] = "cleanupDelete" /\ wpc'[s] # "cleanupDelete") =>
                  delRes'[s] \in {"ok", "fail"}]_vars

\* C17 witness: the context is cancelled while Run has not yet returned,
\* and the Cleanup of a failed Worker has deleted the instance the Worker had
\* created.
C17_Witness ==
    \E s \in SlotIds :
        /\ ctxDone /\ runPc # "returned"
        /\ wpc[s] = "ret" /\ created[s] /\ werr[s] = "err"
        /\ delRes[s] = "ok" /\ InstanceName(s) \notin vms

\* C18: the stop and the delete of Cleanup leave the result of the
\* iteration as runOnce set it, whether they succeed or fail; the delete
\* follows the stop also when the stop had no effect; Cleanup is entered at
\* most once per iteration, is at its stop only before any delete outcome
\* exists, and leaves its delete with exactly one outcome recorded.
C18_CleanupNeverFailsCaller ==
    /\ [](\A s \in SlotIds :
            /\ cleanups[s] <= 1
            /\ wpc[s] \in {"cleanupStop", "cleanupDelete"} =>
                  (cleanups[s] = 1 /\ delRes[s] = "none"))
    /\ [][\A s \in SlotIds :
            /\ (wpc[s] = "cleanupStop" /\ wpc'[s] # "cleanupStop") =>
                  /\ wpc'[s] = "cleanupDelete"
                  /\ werr'[s] = werr[s]
                  /\ cleanups'[s] = cleanups[s]
            /\ (wpc[s] = "cleanupDelete" /\ wpc'[s] # "cleanupDelete") =>
                  /\ wpc'[s] = "ret"
                  /\ werr'[s] = werr[s]
                  /\ cleanups'[s] = cleanups[s]
                  /\ delRes'[s] \in {"ok", "fail"}
                  /\ delRes'[s] = "ok" => InstanceName(s) \notin vms'
            /\ (wpc[s] = "ret" /\ wpc'[s] # "ret") =>
                  /\ wpc'[s] = AfterRunOnce(werr[s] # "nil", ctxDone)
                  /\ delRes'[s] = delRes[s]]_vars

\* C18 witness: the iteration of a Worker ended with nil, the Delete of its
\* one Cleanup failed and the instance is still there; runOnce has returned
\* nil all the same.
C18_Witness ==
    \E s \in SlotIds :
        /\ wpc[s] = "ret" /\ werr[s] = "nil"
        /\ cleanups[s] = 1 /\ delRes[s] = "fail"
        /\ InstanceName(s) \in vms

\* C19: the path GetRegistryPath returns is image_name when registry_url is
\* empty, image_name when image_name is registry_url, "/" and some rest, and
\* registry_url, "/", image_name otherwise; ("ghcr.io/org",
\* "ghcr.io/org/runner:latest") gives "ghcr.io/org/runner:latest" and
\* ("", "runner:latest") gives "runner:latest".
C19_RegistryPathResolution ==
    registryPath # <<>> =>
        LET url == registry.url
            name == registry.imageName
            path == registryPath[1]
            carriesPrefix ==
                \E k \in 0..Len(name) :
                    name = url \o <<"/">> \o SubSeq(name, k + 1, Len(name))
        IN  /\ Len(registryPath) = 1
            /\ url = <<>> => path = name
            /\ (url # <<>> /\ carriesPrefix) => path = name
            /\ (url # <<>> /\ ~carriesPrefix) =>
                  (/\ Len(path) = Len(url) + 1 + Len(name)
                   /\ SubSeq(path, 1, Len(url)) = url
                   /\ path[Len(url) + 1] = "/"
                   /\ SubSeq(path, Len(url) + 2, Len(path)) = name)
            /\ (url = GhcrOrg /\ name = GhcrOrgRunnerLatest) =>
                  path = GhcrOrgRunnerLatest
            /\ (url = <<>> /\ name = RunnerLatest) => path = RunnerLatest

\* C19 witness: the path of ("ghcr.io/org", "ghcr.io/org/runner:latest") has
\* been resolved, without a second prefix.
C19_Witness ==
    /\ registry = [url |-> GhcrOrg, imageName |-> GhcrOrgRunnerLatest]
    /\ registryPath = <<GhcrOrgRunnerLatest>>

\* C20: the address check accepts "192.168.64.10", rejects "", "not-an-ip"
\* and "1.2.3", and accepts a string only if it is an IPv4 address in
\* dotted-quad form: four fields of one to three decimal digits, each at
\* most 255, separated by three dots.
C20_AcceptsOnlyIPv4 ==
    LET digit == [c \in Digits |->
                     CHOOSE n \in 0..9 :
                         c = <<"0", "1", "2", "3", "4", "5", "6", "7", "8",
                               "9">>[n + 1]]
        octet(f) ==
            /\ Len(f) \in 1..3
            /\ \A i \in 1..Len(f) : f[i] \in Digits
            /\ \/ Len(f) < 3
               \/ 100 * digit[f[1]] + 10 * digit[f[2]] + digit[f[3]] <= 255
        dottedQuad(s) ==
            \E a, b, c \in 1..Len(s) :
                /\ a < b /\ b < c
                /\ s[a] = "." /\ s[b] = "." /\ s[c] = "."
                /\ octet(SubSeq(s, 1, a - 1))
                /\ octet(SubSeq(s, a + 1, b - 1))
                /\ octet(SubSeq(s, b + 1, c - 1))
                /\ octet(SubSeq(s, c + 1, Len(s)))
    IN  /\ ip = Ip192 => ipMatch \in {"pending", "accepted"}
        /\ ip \in {<<>>, NotAnIp, OneTwoThree} =>
              ipMatch \in {"pending", "rejected"}
        /\ ipMatch = "accepted" => dottedQuad(ip)

C22_OneRequestTokenOrError ==
    /\ requests <= 1
    /\ tokenPc = "sent" => requests = 1
    /\ tokenPc = "returned" =>
         LET failed == \/ ~http.transport
                       \/ ~http.read
                       \/ http.status # StatusCreated
                       \/ ~http.json
                       \/ http.token = <<>>
         IN  /\ requests = 1
             /\ failed => tokenRes.err # "nil" /\ tokenRes.token = <<>>
             /\ ~failed => tokenRes.err = "nil" /\ tokenRes.token = http.token

\* A call that was answered 200 with a well-formed, non-empty token has
\* returned the status error.
C22_Witness ==
    /\ tokenPc = "returned"
    /\ requests = 1
    /\ http.transport /\ http.read /\ http.json
    /\ http.status = 200
    /\ http.token # <<>>
    /\ tokenRes = [token |-> <<>>, err |-> "status"]

\* C23: an iteration begins with the token request, and the clone is only
\* reached from a token request that succeeded; after a token request that
\* failed the iteration has created no instance and runs no Cleanup, no step
\* of it changes the set of instances or the VM process of its slot, and the
\* only way on is the return of runOnce, the optional backoff and the release
\* of the slot into the pool.
C23_TokenFirstNoVmOnFailure ==
    /\ [](\A s \in SlotIds :
            werr[s] = "token" =>
              /\ wpc[s] \in {"ret", "sleep", "release"}
              /\ ~created[s]
              /\ cleanups[s] = 0)
    /\ [][\A s \in SlotIds :
            /\ wpc[s] = "idle" /\ wpc'[s] # "idle" => wpc'[s] = "token"
            /\ wpc[s] # "clone" /\ wpc'[s] = "clone" => wpc[s] = "token"
            /\ wpc[s] = "token" /\ wpc'[s] # "token" =>
                 \/ wpc'[s] = "clone" /\ werr'[s] = "nil"
                 \/ wpc'[s] = "ret" /\ werr'[s] = "token"
            /\ werr[s] = "token" /\ wpc'[s] # wpc[s] =>
                 /\ (InstanceName(s) \in vms') = (InstanceName(s) \in vms)
                 /\ vmProc'[s] = vmProc[s]
                 /\ \/ wpc[s] = "ret" /\ wpc'[s] \in {"sleep", "release"}
                    \/ wpc[s] = "sleep" /\ wpc'[s] = "release"
                    \/ wpc[s] = "release" /\ wpc'[s] = "idle" /\ s \in Free'
         ]_vars

\* A Worker whose token request failed is about to release its slot while
\* the other Worker has an instance.
C23_Witness ==
    \E s, t \in SlotIds :
        /\ s # t
        /\ wpc[s] = "release"
        /\ werr[s] = "token"
        /\ InstanceName(s) \notin vms
        /\ InstanceName(t) \in vms

\* C24: when the presence check of the initializer found the image, the
\* source a Worker clones from is the name that check matched.
C24_CloneFromResolvedRef ==
    \A s \in SlotIds :
        /\ refPc[s] = "cloned"
        /\ ResolveImage(listOutput, registry.url, registry.imageName).exists
        => cloneRef[s] = imageRef[InitManager]

\* C25: when resizeCachedImage has returned after it cloned the probe VM,
\* the deferred "tart stop" and "tart delete" of the probe VM were run, the
\* probe VM is not running and the instance is gone.
C25_ProbeTornDown ==
    rzPc = "returned" /\ rzErr # "truncate" /\ rzErr # "clone" =>
        /\ rzStopRan
        /\ rzDeleteRan
        /\ probeProc # "running"
        /\ ~probe

\* C26: the initializer runs login, presence check and pull in this order
\* and its first failure ends it with that step's error, which Run returns.
\* Without registry url or username the login cannot fail; the pull is
\* entered only from a presence check that reported no error, with a
\* registry url; a presence check that ends the initializer without error
\* has entered no pull; the error "no registry URL" is set only by the
\* presence check, without url, and no pull follows it.
C26_InitShortCircuit ==
    [][/\ runPc' # runPc /\ runPc' = "imageExists" =>
            runPc = "login" /\ initErr' = "nil"
       /\ runPc' # runPc /\ runPc' = "pull" =>
            runPc = "imageExists" /\ cfg.url /\ initErr' = "nil"
       /\ runPc = "login" /\ runPc' # runPc =>
            /\ (~cfg.url \/ ~cfg.user) =>
                   runPc' = "imageExists" /\ initErr' = "nil"
            /\ initErr' \in {"nil", "login"}
            /\ initErr' = "login" <=> runPc' = "initDone"
       /\ runPc = "imageExists" /\ runPc' # runPc =>
            /\ initErr' \in {"nil", "check", "nourl"}
            /\ initErr' # "nil" => runPc' = "initDone"
            /\ initErr' = "nourl" => ~cfg.url
            /\ ~cfg.url => runPc' = "initDone"
       /\ runPc = "pull" /\ runPc' # runPc =>
            runPc' = "initDone" /\ initErr' \in {"nil", "pull"}
       /\ runPc = "initDone" /\ initErr # "nil" /\ runPc' # runPc =>
            runPc' = "returned" /\ runErr' = initErr
      ]_vars

\* The image is absent and no registry url is configured: the initializer
\* has ended with the configuration error, straight from the presence check.
C26_Witness ==
    /\ runPc = "initDone"
    /\ initErr = "nourl"
    /\ ~cfg.url
    /\ initCount = 1

\* C27: whenever the Dispatcher waits for a slot, ctx is cancelled and the
\* pool is empty, its step to the drain is enabled; and its next step from
\* there goes to the drain with the pool still empty and no Worker spawned,
\* unless a Worker has released a slot in between.
C27_ShutdownNotStarvedByFullPool ==
    /\ [](runPc = "acquire" /\ ctxDone /\ slots = <<>> =>
            ENABLED AcquireCancelled)
    /\ [][runPc = "acquire" /\ ctxDone /\ slots = <<>> /\ runPc' # runPc =>
            /\ runPc' = "drain"
            /\ shutdownBy' = "ctx"
            /\ slots' = <<>>
            /\ wg' = wg
            /\ wpc' = wpc
         ]_vars

\* The Dispatcher has gone to the drain on cancellation while both slots are
\* held by Workers that have not reached their release.
C27_Witness ==
    /\ cfg.n = MaxConcurrentRunners
    /\ runPc = "drain"
    /\ shutdownBy = "ctx"
    /\ slots = <<>>
    /\ exiting = 0
    /\ \A s \in SlotIds : wpc[s] \in {"waitIP", "waitSSH", "job"}

\* C28: two Workers that are active at the same time have different slot
\* ids and so different instance names: the Dispatcher hands a slot id only
\* to a Worker when no active Worker holds it, and the names of different
\* slot ids differ; so two active Workers that both cloned have two
\* instances, each there until its own Worker has deleted it.
C28_DistinctInstanceNames ==
    /\ [](\A s, t \in SlotIds :
            s # t /\ Active(s) /\ Active(t) =>
                /\ InstanceName(s) # InstanceName(t)
                /\ s \notin Free /\ t \notin Free
                /\ created[s] /\ created[t] =>
                     Cardinality(vms \cap {InstanceName(s), InstanceName(t)})
                       + Cardinality({u \in {s, t} : delRes[u] = "ok"}) >= 2)
    /\ [][\A s \in SlotIds :
            wpc'[s] = "token" /\ wpc[s] # "token" =>
                /\ wpc[s] = "idle"
                /\ slots # <<>> /\ Head(slots) = s
                /\ s \notin Free'
         ]_vars

\* Both Workers are active with their instances cloned, under two names.
C28_Witness ==
    /\ \A s \in SlotIds : wpc[s] = "waitIP" /\ created[s]
    /\ Cardinality(vms) = MaxConcurrentRunners
    /\ Cardinality({InstanceName(s) : s \in SlotIds}) = MaxConcurrentRunners

\* C29: the VMManager of an active Worker is neither the initializer's nor
\* that of another active Worker; no step of a Worker writes the imageRef of
\* a VMManager that already exists (the one write is the initializer's
\* presence check on its own object); and so, whatever the interleaving, a
\* Worker clones from the source its own unset imageRef gives.
C29_WorkersShareNoVMManager ==
    /\ [](\A s \in SlotIds :
            mgr[s] # 0 =>
              /\ mgr[s] # InitManager
              /\ mgr[s] \in 1..Len(imageRef)
              /\ imageRef[mgr[s]] = <<>>
              /\ \A t \in SlotIds \ {s} : mgr[t] # mgr[s]
              /\ refPc[s] = "cloned" =>
                   cloneRef[s] =
                     GetRegistryPath(registry.url, registry.imageName))
    /\ [][\A m \in 1..Len(imageRef) :
            imageRef'[m] # imageRef[m] =>
                m = InitManager /\ imgPc = "exists" /\ mgr = mgr'
         ]_vars

\* Both Workers have cloned, each through its own VMManager, while the
\* initializer's VMManager holds a resolved reference of its own.
C29_Witness ==
    /\ \A s \in SlotIds : refPc[s] = "cloned" /\ mgr[s] > InitManager
    /\ Cardinality({mgr[s] : s \in SlotIds}) = MaxConcurrentRunners
    /\ imageRef[InitManager] # <<>>
    /\ \E s \in SlotIds : cloneRef[s] # imageRef[InitManager]

\* C30: the sequential loop does what the loop with one slot can do.  Every
\* behaviour of the one-slot loop checks the image at most once in a Run and
\* has no backoff for a failed image check or pull (such a failure ends the
\* Run, C9 and C26), so the sequential loop must be so too.
C30_SequentialIsOneSlotBehaviour ==
    /\ initRuns <= 1
    /\ runPc \notin {"sleepCheck", "sleepPull"}

\* C30 (amended): the sequential loop runs one iteration at a time, inline;
\* each cycle is the cancellation check (return nil), the flag check (return
\* nil), the image check and, for an absent image, the pull, then one
\* runOnce; a failed image check or pull is followed by a backoff and the
\* next cycle, an absent image without registry url by the return of the
\* configuration error, a failed login by the return of its error; after a
\* failed runOnce the loop returns nil under a cancelled ctx and backs off
\* otherwise.
C30_SequentialLoopCycle ==
    /\ [](/\ \A a, b \in SlotIds : Active(a) /\ Active(b) => a = b
          /\ (\E a \in SlotIds : Active(a)) <=> runPc = "runOnce"
          /\ runPc = "returned" => runErr \in {"nil", "login", "nourl"})
    /\ [][runPc' # runPc =>
            CASE runPc = "login" ->
                   \/ runPc' = "top"
                   \/ runPc' = "returned" /\ runErr' = "login"
              [] runPc = "top" ->
                   IF ctxDone THEN runPc' = "returned" /\ runErr' = "nil"
                   ELSE runPc' = "flag"
              [] runPc = "flag" ->
                   IF cfg.flag /\ flagFile
                   THEN runPc' = "returned" /\ runErr' = "nil"
                   ELSE runPc' = "imageExists"
              [] runPc = "imageExists" ->
                   \/ runPc' = "sleepCheck"
                   \/ runPc' = "runOnce"
                   \/ runPc' = "pull" /\ cfg.url
                   \/ runPc' = "returned" /\ runErr' = "nourl" /\ ~cfg.url
              [] runPc = "pull" -> runPc' \in {"sleepPull", "runOnce"}
              [] runPc \in {"sleepCheck", "sleepPull", "sleepIter"} ->
                   runPc' = "top"
              [] runPc = "runOnce" ->
                   \E id \in SlotIds :
                       /\ wpc[id] = "ret"
                       /\ IF werr[id] = "nil" THEN runPc' = "top"
                          ELSE IF ctxDone
                          THEN runPc' = "returned" /\ runErr' = "nil"
                          ELSE runPc' = "sleepIter"
              [] OTHER -> FALSE
         ]_vars

\* The loop has made its second image check of the same Run, and the cycle
\* of that check is in its iteration, with the instance cloned.
C30_Witness ==
    /\ initRuns = 2
    /\ runPc = "runOnce"
    /\ \E id \in SlotIds : wpc[id] = "waitIP" /\ InstanceName(id) \in vms

----
\* Sequence p is the beginning of sequence q.
IsPrefix(p, q) == Len(p) <= Len(q) /\ SubSeq(q, 1, Len(p)) = p

\* C31: as long as the file has not been truncated, the lines forwarded are
\* the first of the non-empty lines written since Start, each once and in
\* the order of the file (a line written in pieces counts as one line).
C31_EveryLineOnceInOrder ==
    (tailPc = "polling" /\ ~truncated)
        => IsPrefix(forwarded, NonEmptyLines(ScanLines(appended, <<>>)))

----
\* C32: under a fair scheduler, once the context of Run has been cancelled
\* by a termination signal, Run eventually returns.
C32_ShutdownTerminates == ctxDone ~> (runPc = "returned")

\* A state after the signal in which both Workers are still inside an
\* iteration, one of them in the wait for the exit of its VM process.
C32_Witness ==
    /\ ctxDone
    /\ runPc = "drain"
    /\ \A s \in SlotIds : Active(s)
    /\ \E s \in SlotIds : wpc[s] = "waitVM" /\ vmProc[s] = "running"

----
\* C33: after RunRunner has returned, the Worker leaves the Stop step
\* whether the stop succeeded or not, always towards the wait for the VM
\* process and without recording an error; it leaves that wait whether or
\* not the process has exited, always into the deferred Cleanup and with
\* the result nil.
C33_StopAndExitWaitNeverBlock ==
    /\ [](\A s \in SlotIds :
            /\ wpc[s] = "stop" => ENABLED Stop(s)
            /\ wpc[s] = "waitVM" => ENABLED WaitVM(s))
    /\ [][\A s \in SlotIds :
            /\ (wpc[s] = "stop" /\ wpc'[s] # "stop")
                 => /\ wpc'[s] = "waitVM"
                    /\ werr'[s] = "nil"
                    /\ cleanups'[s] = 0
            /\ (wpc[s] = "waitVM" /\ wpc'[s] # "waitVM")
                 => /\ wpc'[s] = "cleanupStop"
                    /\ werr'[s] = "nil"
                    /\ cleanups'[s] = 1]_vars

\* The Stop failed, the VM process is still running, no cancellation: the
\* Worker is in Cleanup with the result nil.
C33_Witness ==
    \E s \in SlotIds :
        /\ ~ctxDone
        /\ wpc[s] = "cleanupStop"
        /\ werr[s] = "nil"
        /\ jobEnd[s] = "none"
        /\ created[s]
        /\ vmProc[s] = "running"

----
\* C34: the goroutine around vmCmd.Wait() is never blocked in its send and
\* never blocks the Worker: whenever it is at the send the send can proceed,
\* also after the Worker has left runOnce without receiving; at most one
\* value is ever buffered; and the Worker's wait for the exit can always
\* end.
C34_VmDoneNeverBlocks ==
    /\ waiterPc = "send" => ENABLED WaiterSend
    /\ (waiterPc = "wait" /\ vmProc[VdSlot] \in {"exited", "killed"})
         => ENABLED WaiterReturns
    /\ Len(vmDone) <= VmDoneCapacity
    /\ wpc[VdSlot] = "waitVM" => ENABLED VdWaitVM

\* The Worker has left runOnce without receiving from vmDone and has
\* finished its goroutine; the waiting goroutine has delivered its value,
\* which nobody will read, and has ended.
C34_Witness ==
    /\ wpc[VdSlot] = "idle"
    /\ wg = 0
    /\ waiterPc = "done"
    /\ vmDone = <<"exit">>

----
\* The position of the colon that starts the tag of an image name, 0 when
\* the name has no tag: the last colon, unless a "/" follows it (then it
\* belongs to the host).
TagColon(name) ==
    LET colons == {i \in 1..Len(name) : name[i] = ":"}
        last == CHOOSE i \in colons : \A j \in colons : j <= i
    IN  IF colons = {} THEN 0
        ELSE IF \E k \in (last + 1)..Len(name) : name[k] = "/" THEN 0
        ELSE last

\* The image name with its tag removed.
TagRemoved(name) ==
    IF TagColon(name) = 0 THEN name ELSE SubSeq(name, 1, TagColon(name) - 1)

\* C35: when the presence check has read the list, it reports the image as
\* cached exactly when the list contains the image name, the image name
\* without its tag, or the registry path, and it leaves in the image
\* reference the first of these three that the list contains, or the
\* registry path when it contains none.
C35_CachedIffListed ==
    (imgPc \in {"done", "pull", "failed"} /\ imageRef[InitManager] # <<>>)
    => LET name == registry.imageName
           bare == TagRemoved(name)
           path == GetRegistryPath(registry.url, name)
           first == IF Contains(listOutput, name) THEN name
                    ELSE IF Contains(listOutput, bare) THEN bare
                    ELSE path
           cached == \/ Contains(listOutput, name)
                     \/ Contains(listOutput, bare)
                     \/ Contains(listOutput, path)
       IN  /\ (imgPc = "done") = cached
           /\ imageRef[InitManager] = first

----
\* The configured shutdown-flag file exists, or cancellation has fired.
ShutdownTrigger == ctxDone \/ (cfg.flag /\ flagFile)

\* Positions from which the Dispatcher reaches the drain without passing
\* the select: the top of the loop, the flag check when the file exists,
\* the drain and the return.
PastLastSpawn ==
    \/ ctxDone /\ runPc \in {"top", "drain", "returned"}
    \/ cfg.flag /\ flagFile /\ runPc \in {"top", "flag", "drain", "returned"}

\* C36: once the shutdown-flag file exists or the context is cancelled, the
\* Dispatcher spawns at most one more Worker: a spawn made after the
\* trigger leaves the Dispatcher at the top of the loop, and from there, as
\* from every later position, it spawns no Worker any more.
C36_AtMostOneSpawnAfterTrigger ==
    [][/\ (ShutdownTrigger /\ wg' > wg) => PastLastSpawn'
       /\ PastLastSpawn => (PastLastSpawn' /\ wg' <= wg)]_vars

\* Cancellation has fired, the Dispatcher is in the select, every slot had
\* a Worker and one of them has just released its slot: the Dispatcher can
\* take it and spawn the one additional Worker.
C36_Witness ==
    /\ ctxDone
    /\ runPc = "acquire"
    /\ Len(slots) = 1
    /\ exiting = 1
    /\ wg = cfg.n
    /\ ENABLED AcquireSlot

----
\* C37: under a cancelled context no instance is created; a Worker that
\* takes its Clone step then fails there without an instance, enters the
\* deferred Cleanup with an error, goes through both Cleanup commands, and
\* after runOnce releases its slot without the 10 s backoff.
C37_NoCloneAfterCancel ==
    [][ctxDone =>
         /\ vms' \subseteq vms
         /\ \A s \in SlotIds :
              /\ (wpc[s] = "clone" /\ wpc'[s] # "clone")
                   => /\ wpc'[s] = "cleanupStop"
                      /\ ~created'[s]
                      /\ werr'[s] = "err"
                      /\ cleanups'[s] = 1
              /\ (wpc[s] = "cleanupStop" /\ wpc'[s] # "cleanupStop")
                   => wpc'[s] = "cleanupDelete"
              /\ (wpc[s] = "cleanupDelete" /\ wpc'[s] # "cleanupDelete")
                   => wpc'[s] = "ret"
              /\ (wpc[s] = "ret" /\ wpc'[s] # "ret")
                   => wpc'[s] = "release"]_vars

\* After cancellation the Dispatcher drains while a Worker that failed at
\* Clone, without an instance, has run Cleanup and is releasing its slot.
C37_Witness ==
    \E s \in SlotIds :
        /\ ctxDone
        /\ runPc = "drain"
        /\ wpc[s] = "release"
        /\ werr[s] = "err"
        /\ ~created[s]
        /\ cleanups[s] = 1
        /\ delRes[s] # "none"
        /\ InstanceName(s) \notin vms

----
\* C38 as stated: with a bound of 0, a Run that got past the image
\* initialization returns only by cancellation, never because of a
\* shutdown-flag file created after the dispatch loop has started.
C38_ZeroSlotsReturnOnlyOnCancel ==
    (runPc = "returned" /\ runErr = "nil") => shutdownBy = "ctx"

\* C38, amended: with a bound of 0 the slot channel stays empty, no Worker
\* is spawned and no instance exists; the Dispatcher in the select can only
\* stay there or leave by cancellation, whether the flag file exists or
\* not; and a Run that returns because of the flag file has seen it at the
\* flag check of its first cycle.
C38_ZeroSlotsBlockAfterFirstFlagCheck ==
    /\ [](/\ slots = <<>>
          /\ wg = 0
          /\ vms = {}
          /\ \A s \in SlotIds : ~Active(s)
          /\ ~ENABLED AcquireSlot
          /\ (runPc = "acquire" /\ ~ctxDone) => ~ENABLED AcquireCancelled)
    /\ [][/\ runPc = "acquire" => (runPc' = "acquire" \/ ctxDone)
          /\ (shutdownBy' = "flag" /\ shutdownBy # "flag")
               => (runPc = "flag" /\ cfg.flag /\ flagFile)]_vars

\* The flag file exists, the context is not cancelled, and the Dispatcher
\* is blocked in the select.
C38_Witness ==
    /\ cfg.n = 0
    /\ cfg.flag
    /\ flagFile
    /\ ~ctxDone
    /\ runPc = "acquire"
    /\ ~ENABLED AcquireSlot
    /\ ~ENABLED AcquireCancelled

----
====
